---- MODULE Spec2Model ----
(***************************************************************************)
(* AI-Pixshop: the response classifier (handleApiResponse), the text       *)
(* operations (optimizePrompt, analyzeImage, POST /api/optimize-prompt)    *)
(* and the edit-history store.                                             *)
(*                                                                         *)
(* handleApiResponse exists three times with the same body: in the edit    *)
(* service (services/geminiService.ts), in the draw service and in the     *)
(* proxy server; the model follows the edit service's copy.  The           *)
(* aggregated response.text is an input of its own, as in the provider     *)
(* response shape { promptFeedback?, candidates?, text? }.                 *)
(*                                                                         *)
(* Strings that the code takes apart (response.text) are sequences of      *)
(* one-character strings; enumeration values of the provider (blockReason, *)
(* finishReason) are TLA+ strings.  An optional field is a sequence of     *)
(* length 0 (absent) or 1 (present).                                       *)
(***************************************************************************)
EXTENDS Integers, Sequences, FiniteSets, TLC

\* ------------------------------------------------------------------ bounds
MaxParts == 2
MaxTextLen == 2
MaxSeq == 4

\* ------------------------------------------------------------------ options
None == <<>>
Some(v) == <<v>>
IsSome(o) == Len(o) > 0
Get(o) == o[1]

\* Sequences over S of length 0..n
RECURSIVE SeqsUpTo(_, _)
SeqsUpTo(S, n) ==
  IF n = 0 THEN {<<>>}
  ELSE LET shorter == SeqsUpTo(S, n - 1)
       IN shorter \cup {Append(s, x) : s \in {t \in shorter : Len(t) = n - 1}, x \in S}

\* ------------------------------------------------------------------ the provider's response
BlockReasons == {"SAFETY", "OTHER"}
BlockMessages == {"policy"}
FinishReasons == {"STOP", "SAFETY", "RECITATION"}
Contexts == {"edit", "text-to-image"}
\* characters of response.text: a space, a letter and, for JSON.parse, a digit
TextChars == {" ", "x"}
JsonChars == TextChars \cup {"1"}

MimePng == <<"image/png">>
MimeJpeg == <<"image/jpeg">>
DataA == <<"QUJD">>
DataB == <<"REVG">>

TextPart == [inlineData |-> None, text |-> Some(<<"x">>)]
ImagePartA == [inlineData |-> Some([mimeType |-> MimePng, data |-> DataA]), text |-> None]
ImagePartB == [inlineData |-> Some([mimeType |-> MimeJpeg, data |-> DataB]), text |-> None]
PartValues == {TextPart, ImagePartA, ImagePartB}

OptTexts(chars) == {None} \cup {Some(t) : t \in SeqsUpTo(chars, MaxTextLen)}

PromptFeedbacks ==
  {None}
  \cup {Some([blockReason |-> None, blockReasonMessage |-> None])}
  \cup {Some([blockReason |-> Some(b), blockReasonMessage |-> m]) :
          b \in BlockReasons, m \in {None} \cup {Some(x) : x \in BlockMessages}}

OptFinishReasons == {None} \cup {Some(f) : f \in FinishReasons}

Contents ==
  {None, Some([parts |-> None])}
  \cup {Some([parts |-> Some(ps)]) : ps \in SeqsUpTo(PartValues, MaxParts)}

Candidates == [content : Contents, finishReason : OptFinishReasons]

\* A second candidate, which the code never looks at.
OtherCandidate ==
  [content |-> Some([parts |-> Some(<<ImagePartB>>)]), finishReason |-> Some("STOP")]

CandidateLists ==
  {None, Some(<<>>)}
  \cup {Some(<<c>>) : c \in Candidates}
  \cup {Some(<<c, OtherCandidate>>) : c \in Candidates}

Responses ==
  [promptFeedback : PromptFeedbacks, candidates : CandidateLists, text : OptTexts(TextChars)]

\* The text operations read promptFeedback and text only.
TextResponses ==
  [promptFeedback : PromptFeedbacks, candidates : {None}, text : OptTexts(JsonChars)]

\* ------------------------------------------------------------------ JavaScript helpers
\* Truthiness of an optional string: undefined and "" are falsy.
Truthy(o) == IsSome(o) /\ Get(o) # ""

\* Truthiness of an optional character sequence.
TruthyText(o) == IsSome(o) /\ Len(Get(o)) > 0

IsSpace(c) == c = " "

RECURSIVE TrimStart(_)
TrimStart(t) == IF Len(t) > 0 /\ IsSpace(Head(t)) THEN TrimStart(Tail(t)) ELSE t

RECURSIVE TrimEnd(_)
TrimEnd(t) ==
  IF Len(t) > 0 /\ IsSpace(t[Len(t)]) THEN TrimEnd(SubSeq(t, 1, Len(t) - 1)) ELSE t

\* String.prototype.trim
Trim(t) == TrimEnd(TrimStart(t))

\* faulty variant: response.text without trim()
TrimmedTextNoTrimMutant(text) == text
\* response.text?.trim()
TrimmedText(text) == IF IsSome(text) THEN Some(Trim(Get(text))) ELSE None

\* ------------------------------------------------------------------ handleApiResponse, piece by piece
\* response.promptFeedback?.blockReason
BlockReasonOf(r) ==
  IF IsSome(r.promptFeedback) THEN Get(r.promptFeedback).blockReason ELSE None

\* blockReasonMessage || ''
BlockMessageOf(r) ==
  LET m == Get(r.promptFeedback).blockReasonMessage
  IN IF Truthy(m) THEN Get(m) ELSE ""

\* response.candidates?.[0]
FirstCandidate(r) ==
  IF IsSome(r.candidates) /\ Len(Get(r.candidates)) > 0
  THEN Some(Get(r.candidates)[1])
  ELSE None

\* response.candidates?.[0]?.content?.parts
PartsOf(r) ==
  LET c == FirstCandidate(r)
  IN IF IsSome(c) /\ IsSome(Get(c).content) THEN Get(Get(c).content).parts ELSE None

\* Array.prototype.find(part => part.inlineData)
RECURSIVE Find(_)
Find(ps) ==
  IF Len(ps) = 0 THEN None
  ELSE IF IsSome(Head(ps).inlineData) THEN Some(Head(ps))
  ELSE Find(Tail(ps))

\* Array.prototype.findLast, for the faulty variant below
RECURSIVE FindLast(_)
FindLast(ps) ==
  IF Len(ps) = 0 THEN None
  ELSE IF IsSome(ps[Len(ps)].inlineData) THEN Some(ps[Len(ps)])
  ELSE FindLast(SubSeq(ps, 1, Len(ps) - 1))

\* faulty variant: the last part with inlineData
ImagePartLastMutant(r) == IF IsSome(PartsOf(r)) THEN FindLast(Get(PartsOf(r))) ELSE None
\* the image part of the response, or None
ImagePartFromResponse(r) == IF IsSome(PartsOf(r)) THEN Find(Get(PartsOf(r))) ELSE None

\* `data:${mimeType};base64,${data}`
DataUri(mimeType, data) == <<"data", ":">> \o mimeType \o <<";", "base64", ",">> \o data

\* response.candidates?.[0]?.finishReason
FinishReasonOf(r) ==
  LET c == FirstCandidate(r) IN IF IsSome(c) THEN Get(c).finishReason ELSE None

\* faulty variant: the image is looked for before the block
IsBlockedAfterImageMutant(r) == Truthy(BlockReasonOf(r)) /\ ~IsSome(ImagePartFromResponse(r))
\* step 1: response.promptFeedback?.blockReason is truthy
IsBlocked(r) == Truthy(BlockReasonOf(r))

\* faulty variant: the text is preferred to the finishReason
StoppedEarlyUnlessTextMutant(r) ==
  Truthy(FinishReasonOf(r)) /\ Get(FinishReasonOf(r)) # "STOP" /\ ~TruthyText(r.text)
\* step 3: finishReason && finishReason !== 'STOP'
StoppedEarly(r) == Truthy(FinishReasonOf(r)) /\ Get(FinishReasonOf(r)) # "STOP"

\* The errors the code throws: the message template (kind) and what it substitutes.
Error(kind, ctx, reason, message, text) ==
  [kind |-> kind, context |-> ctx, reason |-> reason, message |-> message, text |-> text]

BlockedError(r) == Error("Blocked", "", Get(BlockReasonOf(r)), BlockMessageOf(r), None)
StoppedEarlyError(r, ctx) == Error("StoppedEarly", ctx, Get(FinishReasonOf(r)), "", None)

\* faulty variant: textFeedback !== undefined in place of its truthiness
NoImageDefinedTextMutant(r, ctx) ==
  Error("NoImageReturned", ctx, "", "", TrimmedText(r.text))
\* the closing error: textFeedback ? `... "${textFeedback}"` : "..."
NoImageError(r, ctx) ==
  LET textFeedback == TrimmedText(r.text)
  IN Error("NoImageReturned", ctx, "", "", IF TruthyText(textFeedback) THEN textFeedback ELSE None)

\* ------------------------------------------------------------------ state
VARIABLES
  pc,        \* where the running handler is: "idle", a step of handleApiResponse, "done"
  op,        \* the handler that runs (or ran last)
  response,  \* the provider response it was given (an option)
  context,   \* handleApiResponse's context argument
  returned,  \* the values the handler has returned, in order
  thrown,    \* the errors the handler has thrown, in order
  sent       \* the HTTP responses the route has sent, in order

respVars == <<pc, op, response, context, returned, thrown, sent>>

RespInit ==
  /\ pc = "idle"
  /\ op = "none"
  /\ response = None
  /\ context = ""
  /\ returned = <<>>
  /\ thrown = <<>>
  /\ sent = <<>>

\* ------------------------------------------------------------------ handleApiResponse, step by step
\* handleApiResponse(response, context) is entered.
CallHandleApiResponse ==
  /\ pc = "idle"
  /\ pc' = "block"
  /\ op' = "handleApiResponse"
  /\ \E r \in Responses : response' = Some(r)
  /\ \E ctx \in Contexts : context' = ctx
  /\ returned' = <<>>
  /\ thrown' = <<>>
  /\ sent' = <<>>

\* faulty variant: the blocked error is recorded and the function goes on
CheckBlockFallThroughMutant ==
  /\ pc = "block"
  /\ pc' = "image"
  /\ thrown' = IF IsBlocked(Get(response))
               THEN Append(thrown, BlockedError(Get(response)))
               ELSE thrown
  /\ UNCHANGED <<op, response, context, returned, sent>>
\* 1. Check for prompt blocking first
CheckBlock ==
  /\ pc = "block"
  /\ IF IsBlocked(Get(response))
     THEN /\ thrown' = Append(thrown, BlockedError(Get(response)))
          /\ pc' = "done"
     ELSE /\ pc' = "image"
          /\ UNCHANGED thrown
  /\ UNCHANGED <<op, response, context, returned, sent>>

\* 2. Try to find the image part
FindImagePart ==
  /\ pc = "image"
  /\ LET imagePartFromResponse == ImagePartFromResponse(Get(response))
     IN IF IsSome(imagePartFromResponse)
        THEN LET inlineData == Get(Get(imagePartFromResponse).inlineData)
             IN /\ returned' = Append(returned, DataUri(inlineData.mimeType, inlineData.data))
                /\ pc' = "done"
        ELSE /\ pc' = "finish"
             /\ UNCHANGED returned
  /\ UNCHANGED <<op, response, context, thrown, sent>>

\* 3. If no image, check for other reasons
CheckFinishReason ==
  /\ pc = "finish"
  /\ IF StoppedEarly(Get(response))
     THEN /\ thrown' = Append(thrown, StoppedEarlyError(Get(response), context))
          /\ pc' = "done"
     ELSE /\ pc' = "text"
          /\ UNCHANGED thrown
  /\ UNCHANGED <<op, response, context, returned, sent>>

\* the closing throw, with or without the model's text
ThrowNoImage ==
  /\ pc = "text"
  /\ thrown' = Append(thrown, NoImageError(Get(response), context))
  /\ pc' = "done"
  /\ UNCHANGED <<op, response, context, returned, sent>>

\* ------------------------------------------------------------------ the text operations
\* JSON.parse on the model's alphabet: a run of digits is a number, anything else throws.
JsonParse(t) ==
  IF Len(t) > 0 /\ \A i \in 1..Len(t) : t[i] = "1" THEN Some(t) ELSE None

\* What ai.models.generateContent settles with: a response, or a rejection.
Settled == {Some(r) : r \in TextResponses} \cup {None}

TransportError == Error("TransportError", "", "", "", None)

\* optimizePrompt of the draw service, from the settled request on
OptimizePrompt(res) ==
  /\ pc = "idle"
  /\ pc' = "done"
  /\ op' = "optimizePrompt"
  /\ response' = res
  /\ context' = ""
  /\ sent' = <<>>
  /\ IF ~IsSome(res)
     THEN returned' = <<>> /\ thrown' = <<TransportError>>
     ELSE LET optimizedText == TrimmedText(Get(res).text)
          IN IF ~TruthyText(optimizedText)
             THEN returned' = <<>> /\ thrown' = <<Error("OptimizeFailed", "", "", "", None)>>
             ELSE returned' = <<Get(optimizedText)>> /\ thrown' = <<>>

\* analyzeImage of the draw service, from the settled request on
AnalyzeImage(res) ==
  /\ pc = "idle"
  /\ pc' = "done"
  /\ op' = "analyzeImage"
  /\ response' = res
  /\ context' = ""
  /\ sent' = <<>>
  /\ IF ~IsSome(res)
     THEN returned' = <<>> /\ thrown' = <<TransportError>>
     ELSE LET analysisText == TrimmedText(Get(res).text)
          IN IF ~TruthyText(analysisText)
             THEN returned' = <<>> /\ thrown' = <<Error("AnalyzeFailed", "", "", "", None)>>
             ELSE LET analysisResult == JsonParse(Get(analysisText))
                  IN IF IsSome(analysisResult)
                     THEN returned' = <<Get(analysisResult)>> /\ thrown' = <<>>
                     ELSE returned' = <<>> /\ thrown' = <<Error("MalformedResult", "", "", "", None)>>

\* req.body.prompt of the route
Prompts == {None, Some(<<>>), Some(<<"x">>)}

HttpResponse(status, success, optimizedPrompt, details) ==
  [status |-> status, success |-> success, optimizedPrompt |-> optimizedPrompt, details |-> details]

\* POST /api/optimize-prompt
RouteOptimizePrompt(prompt, res) ==
  /\ pc = "idle"
  /\ pc' = "done"
  /\ op' = "POST /api/optimize-prompt"
  /\ context' = ""
  /\ returned' = <<>>
  /\ thrown' = <<>>
  /\ IF ~TruthyText(prompt)
     THEN /\ response' = None
          /\ sent' = <<HttpResponse(400, FALSE, None, None)>>
     ELSE /\ response' = res
          /\ IF ~IsSome(res)
             THEN sent' = <<HttpResponse(500, FALSE, None, Some(TransportError))>>
             ELSE LET optimizedText == TrimmedText(Get(res).text)
                  IN IF ~TruthyText(optimizedText)
                     THEN sent' = <<HttpResponse(500, FALSE, None,
                                                 Some(Error("OptimizeFailed", "", "", "", None)))>>
                     ELSE sent' = <<HttpResponse(200, TRUE, optimizedText, None)>>

\* The caller has the outcome; the next call can start.
Finish ==
  /\ pc = "done"
  /\ pc' = "idle"
  /\ op' = "none"
  /\ response' = None
  /\ context' = ""
  /\ returned' = <<>>
  /\ thrown' = <<>>
  /\ sent' = <<>>

\* ------------------------------------------------------------------ History Store
\* An ImageAsset is named by its content; None is the null asset.
Assets == {"img1", "img2"}

VARIABLES
  entries,   \* the HistoryEntry sequence: [asset, seq]
  cursor,    \* index of the current entry, counted from 0; -1 while there is none
  nextSeq,   \* the sequence number the next entry gets
  result,    \* what the last History call answered
  script,    \* observer: how far a run of pushes, then undos, then one push has come
  undoRedo   \* observer: an undo and the redo right after it

histVars == <<entries, cursor, nextSeq, result, script, undoRedo>>

Answer(name, ok, error, value) == [op |-> name, ok |-> ok, error |-> error, value |-> value]

NoScript == [phase |-> "off", n |-> 0, k |-> 0, pushed |-> <<>>, last |-> None]
NoUndoRedo == [phase |-> "none", entries |-> <<>>, cursor |-> -1]

HistInit ==
  /\ entries = <<>>
  /\ cursor = -1
  /\ nextSeq = 1
  /\ result = Answer("none", TRUE, "", None)
  /\ script = [phase |-> "pushing", n |-> 0, k |-> 0, pushed |-> <<>>, last |-> None]
  /\ undoRedo = NoUndoRedo

\* the asset at position c, if there is one
AssetAt(es, c) == IF c >= 0 /\ c < Len(es) THEN Some(es[c + 1].asset) ELSE None

\* faulty variant: push keeps the undone entries
KeepAllMutant(es, c) == es
\* the entries push keeps: those up to the cursor
KeptByPush(es, c) == SubSeq(es, 1, c + 1)

\* faulty variant: undo from the oldest version
CanUndoAtZeroMutant == cursor >= 0
\* undo is possible: the cursor is not at the oldest version
CanUndo == cursor > 0
\* faulty variant: no redo onto the newest version
CanRedoOffByOneMutant == cursor < Len(entries) - 2
\* faulty variant: redo from the tip
CanRedoPastTipMutant == cursor < Len(entries)
\* redo is possible: the cursor is not at the tip
CanRedo == cursor < Len(entries) - 1

\* push(asset): drop what lies past the cursor, append, move to the new tip
push(asset) ==
  /\ nextSeq <= MaxSeq
  /\ undoRedo' = NoUndoRedo
  /\ IF ~IsSome(asset)
     THEN /\ result' = Answer("push", FALSE, "InvalidAsset", None)
          /\ script' = NoScript
          /\ UNCHANGED <<entries, cursor, nextSeq>>
     ELSE /\ entries' = Append(KeptByPush(entries, cursor), [asset |-> Get(asset), seq |-> nextSeq])
          /\ cursor' = Len(entries') - 1
          /\ nextSeq' = nextSeq + 1
          /\ result' = Answer("push", TRUE, "", None)
          /\ script' = IF script.phase = "pushing"
                       THEN [script EXCEPT !.n = @ + 1, !.pushed = Append(@, Get(asset))]
                       ELSE IF script.phase = "undoing"
                       THEN [script EXCEPT !.phase = "pushed", !.last = asset]
                       ELSE NoScript

\* undo(): one position back
undo ==
  IF CanUndo
  THEN /\ cursor' = cursor - 1
       /\ result' = Answer("undo", TRUE, "", AssetAt(entries, cursor'))
       /\ script' = IF script.phase \in {"pushing", "undoing"}
                    THEN [script EXCEPT !.phase = "undoing", !.k = @ + 1]
                    ELSE NoScript
       /\ undoRedo' = [phase |-> "undone", entries |-> entries, cursor |-> cursor]
       /\ UNCHANGED <<entries, nextSeq>>
  ELSE /\ result' = Answer("undo", FALSE, "AtOldestVersion", None)
       /\ script' = NoScript
       /\ undoRedo' = NoUndoRedo
       /\ UNCHANGED <<entries, cursor, nextSeq>>

\* redo(): one position forward
redo ==
  IF CanRedo
  THEN /\ cursor' = cursor + 1
       /\ result' = Answer("redo", TRUE, "", AssetAt(entries, cursor'))
       /\ script' = IF script.phase = "pushed" THEN [script EXCEPT !.phase = "redone"] ELSE NoScript
       /\ undoRedo' = IF undoRedo.phase = "undone"
                      THEN [undoRedo EXCEPT !.phase = "redone"]
                      ELSE NoUndoRedo
       /\ UNCHANGED <<entries, nextSeq>>
  ELSE /\ result' = Answer("redo", FALSE, "AtNewestVersion", None)
       /\ script' = IF script.phase = "pushed" THEN [script EXCEPT !.phase = "redone"] ELSE NoScript
       /\ undoRedo' = IF undoRedo.phase = "undone"
                      THEN [undoRedo EXCEPT !.phase = "redoFailed"]
                      ELSE NoUndoRedo
       /\ UNCHANGED <<entries, cursor, nextSeq>>

\* current(): the asset at the cursor
current ==
  /\ result' = IF Len(entries) = 0
               THEN Answer("current", FALSE, "EmptyHistory", None)
               ELSE Answer("current", TRUE, "", AssetAt(entries, cursor))
  /\ script' = IF script.phase = "redone" THEN NoScript ELSE script
  /\ UNCHANGED <<entries, cursor, nextSeq, undoRedo>>

\* faulty variant: the new entry is added after the old ones
resetAppendsMutant(asset) ==
  /\ nextSeq <= MaxSeq
  /\ entries' = Append(entries, [asset |-> asset, seq |-> nextSeq])
  /\ cursor' = Len(entries)
  /\ nextSeq' = nextSeq + 1
  /\ result' = Answer("reset", TRUE, "", None)
  /\ script' = NoScript
  /\ undoRedo' = NoUndoRedo
\* reset(asset): one entry, the new base image (called with an uploaded image)
reset(asset) ==
  /\ nextSeq <= MaxSeq
  /\ entries' = <<[asset |-> asset, seq |-> nextSeq]>>
  /\ cursor' = 0
  /\ nextSeq' = nextSeq + 1
  /\ result' = Answer("reset", TRUE, "", None)
  /\ script' = NoScript
  /\ undoRedo' = NoUndoRedo

\* ------------------------------------------------------------------ request builders
\* Bound on the number of reference images handed to a builder.
MaxImages == 2

\* a File: its MIME type and its bytes, in chunks of three (a last chunk may be shorter)
FileA == [name |-> "a.png", type |-> MimePng, data |-> <<"ABC">>]
FileB == [name |-> "b.jpg", type |-> MimeJpeg, data |-> <<"DEF">>]
Files == {FileA, FileB}

\* base64 of a byte string, chunk by chunk
Btoa(bytes) ==
  LET table == ("ABC" :> "QUJD") @@ ("DEF" :> "REVG") @@ ("A" :> "QQ==")
  IN [k \in 1..Len(bytes) |-> table[bytes[k]]]

\* FileReader.readAsDataURL
ReadAsDataURL(file) == DataUri(file.type, Btoa(file.data))

RECURSIVE IndexOf(_, _, _)
\* index of the first c in s at or after position from, 0 when there is none
IndexOf(s, c, from) ==
  IF from > Len(s) THEN 0
  ELSE IF s[from] = c THEN from
  ELSE IndexOf(s, c, from + 1)

RECURSIVE Split(_, _)
\* String.prototype.split
Split(s, sep) ==
  LET i == IndexOf(s, sep, 1)
  IN IF i = 0 THEN <<s>>
     ELSE <<SubSeq(s, 1, i - 1)>> \o Split(SubSeq(s, i + 1, Len(s)), sep)

\* the group of head.match(/:(.*?);/), None when there is no match
MimeMatch(head) ==
  LET i == IndexOf(head, ":", 1)
  IN IF i = 0 THEN None
     ELSE LET j == IndexOf(head, ";", i + 1)
          IN IF j = 0 THEN None ELSE Some(SubSeq(head, i + 1, j - 1))

\* a settled promise
Resolved(v) == [ok |-> TRUE, value |-> Some(v), error |-> None]
Rejected(e) == [ok |-> FALSE, value |-> None, error |-> Some(e)]

ImagePart(mimeType, data) ==
  [inlineData |-> Some([mimeType |-> mimeType, data |-> data]), text |-> None]

\* { text: ... }: the instruction text is kept as its template and what is interpolated
InstructionPart(template, prompt, fields) ==
  [inlineData |-> None,
   text |-> Some([template |-> template, prompt |-> prompt, fields |-> fields])]

fileToPart(file) ==
  LET dataUrl == ReadAsDataURL(file)
      arr == Split(dataUrl, ",")
  IN IF Len(arr) < 2 THEN Rejected("Invalid data URL")
     ELSE LET mimeMatch == MimeMatch(arr[1])
          IN IF ~IsSome(mimeMatch) \/ Len(Get(mimeMatch)) = 0
             THEN Rejected("Could not parse MIME type from data URL")
             ELSE Resolved(ImagePart(Get(mimeMatch), arr[2]))

\* the orders in which n promises can settle
Orders(n) == {o \in [1..n -> 1..n] : \A i, j \in 1..n : i # j => o[i] # o[j]}

RECURSIVE FirstRejection(_, _)
FirstRejection(outcomes, order) ==
  IF Len(order) = 0 THEN None
  ELSE IF ~outcomes[Head(order)].ok THEN Some(outcomes[Head(order)])
  ELSE FirstRejection(outcomes, Tail(order))

RECURSIVE Settle(_, _, _)
\* each promise, as it settles, stores its value at its own index
Settle(values, outcomes, order) ==
  IF Len(order) = 0 THEN values
  ELSE Settle([values EXCEPT ![Head(order)] = Get(outcomes[Head(order)].value)],
              outcomes, Tail(order))

\* faulty variant: values collected in the order of settling
PromiseAllInSettlingOrderMutant(outcomes, order) ==
  LET rejection == FirstRejection(outcomes, order)
  IN IF IsSome(rejection) THEN Get(rejection)
     ELSE Resolved([k \in 1..Len(outcomes) |-> Get(outcomes[order[k]].value)])
\* Promise.all over promises settling in the given order
PromiseAll(outcomes, order) ==
  LET rejection == FirstRejection(outcomes, order)
  IN IF IsSome(rejection) THEN Get(rejection)
     ELSE Resolved(Settle([k \in 1..Len(outcomes) |-> None], outcomes, order))

\* referenceImages.map(fileToPart)
MapFileToPart(files) == [k \in 1..Len(files) |-> fileToPart(files[k])]

\* obj[key] inside a template literal
Lookup(map, key) == IF key \in DOMAIN map THEN map[key] ELSE "undefined"

\* const { name = fallback } = options
DefaultTo(o, fallback) == IF IsSome(o) THEN Get(o) ELSE fallback

\* the label tables of generateImageFromText (labels glossed in ASCII)
styleInstructions ==
  [photo |-> "photographic", art |-> "painting", illustration |-> "illustration",
   concept |-> "concept design"]
aspectInstructions ==
  ("1:1" :> "1:1") @@ ("16:9" :> "16:9") @@ ("9:16" :> "9:16") @@ ("free" :> "free ratio")
qualityInstructions ==
  [draft |-> "fast", standard |-> "standard quality", high |-> "high quality detail"]
\* the aspect table of the proxy route
routeAspectInstructions ==
  ("1:1" :> "1:1") @@ ("16:9" :> "16:9") @@ ("9:16" :> "9:16")
    @@ ("free" :> "natural aspect ratio")

\* option values a caller passes: absent, recognized, unrecognized
OptionInputs ==
  [style : {None, Some("photo"), Some("art"), Some("sketch")},
   aspectRatio : {None, Some("16:9"), Some("free"), Some("4:3")},
   quality : {None, Some("draft"), Some("high"), Some("ultra")}]
NoOptions == [style |-> None, aspectRatio |-> None, quality |-> None]
UserPrompts == {<<"p">>, <<"q">>}
Hotspots == [x : {0, 1}, y : {0, 1}]

\* generateEditedImage, generateFilteredImage, generateAdjustedImage up to generateContent
EditParts(template, originalImage, userPrompt, fields) ==
  LET originalImagePart == fileToPart(originalImage)
  IN IF ~originalImagePart.ok THEN originalImagePart
     ELSE Resolved(<<Get(originalImagePart.value), InstructionPart(template, userPrompt, fields)>>)

\* generateImageFromText of the draw service up to generateContent
generateImageFromTextParts(prompt, options) ==
  LET style == DefaultTo(options.style, "photo")
      aspectRatio == DefaultTo(options.aspectRatio, "1:1")
      quality == DefaultTo(options.quality, "standard")
  IN Resolved(<<InstructionPart("text-to-image", prompt,
                  <<Lookup(styleInstructions, style),
                    Lookup(aspectInstructions, aspectRatio),
                    Lookup(qualityInstructions, quality)>>)>>)

\* POST /api/text-to-image up to generateContent
RouteTextToImageParts(prompt, options) ==
  LET style == DefaultTo(options.style, "photo")
      aspectRatio == DefaultTo(options.aspectRatio, "1:1")
      quality == DefaultTo(options.quality, "high")
  IN IF ~TruthyText(prompt) THEN Rejected("400")
     ELSE Resolved(<<InstructionPart("text-to-image", Get(prompt),
                       <<Lookup(styleInstructions, style),
                         Lookup(routeAspectInstructions, aspectRatio),
                         Lookup(qualityInstructions, quality)>>)>>)

\* JSON.stringify({ prompt, ...options }) of the API client as the route's req.body
\* reads it: a member that is undefined is left out
clientRequestBody(prompt, options) ==
  LET members == [prompt |-> Some(prompt), style |-> options.style,
                  aspectRatio |-> options.aspectRatio, quality |-> options.quality]
      present == {name \in DOMAIN members : IsSome(members[name])}
  IN [name \in present |-> Get(members[name])]

\* req.body.<name>, undefined when the member is absent
BodyMember(body, name) == IF name \in DOMAIN body THEN Some(body[name]) ELSE None

\* generateImageFromText of the API client up to the route's generateContent
clientGenerateImageFromTextParts(prompt, options) ==
  LET body == clientRequestBody(prompt, options)
  IN RouteTextToImageParts(BodyMember(body, "prompt"),
                           [style |-> BodyMember(body, "style"),
                            aspectRatio |-> BodyMember(body, "aspectRatio"),
                            quality |-> BodyMember(body, "quality")])

\* generateWithReference up to generateContent
generateWithReferenceParts(prompt, referenceImages, order) ==
  LET referenceParts == PromiseAll(MapFileToPart(referenceImages), order)
  IN IF ~referenceParts.ok THEN referenceParts
     ELSE Resolved(Get(referenceParts.value)
                     \o <<InstructionPart("reference", prompt, <<Len(referenceImages)>>)>>)

\* optimizePrompt up to generateContent
optimizePromptParts(originalPrompt) ==
  Resolved(<<InstructionPart("optimize", originalPrompt, <<>>)>>)

\* analyzeImage up to generateContent
analyzeImageParts(image) ==
  LET imagePart == fileToPart(image)
  IN IF ~imagePart.ok THEN imagePart
     ELSE Resolved(<<Get(imagePart.value), InstructionPart("analyze", <<>>, <<>>)>>)

\* the last request a builder was asked for: its inputs and what it handed to generateContent
VARIABLES built

buildVars == <<built>>

Built(operation, images, order, options, parts) ==
  [op |-> operation, images |-> images, order |-> order, options |-> options,
   parts |-> parts.value, error |-> parts.error]

BuildInit == built = Built("none", <<>>, <<>>, NoOptions, Rejected(""))

BuildEdit ==
  \E file \in Files, userPrompt \in UserPrompts, hotspot \in Hotspots :
    built' = Built("edit", <<file>>, <<1>>, NoOptions,
                   EditParts("edit", file, userPrompt, <<hotspot.x, hotspot.y>>))

BuildFilter ==
  \E file \in Files, filterPrompt \in UserPrompts :
    built' = Built("filter", <<file>>, <<1>>, NoOptions,
                   EditParts("filter", file, filterPrompt, <<>>))

BuildAdjust ==
  \E file \in Files, adjustmentPrompt \in UserPrompts :
    built' = Built("adjust", <<file>>, <<1>>, NoOptions,
                   EditParts("adjust", file, adjustmentPrompt, <<>>))

BuildTextToImage ==
  \E prompt \in UserPrompts, options \in OptionInputs :
    built' = Built("text-to-image", <<>>, <<>>, options,
                   generateImageFromTextParts(prompt, options))

BuildRouteTextToImage ==
  \E prompt \in {None, Some(<<>>)} \cup {Some(p) : p \in UserPrompts}, options \in OptionInputs :
    built' = Built("route-text-to-image", <<>>, <<>>, options,
                   RouteTextToImageParts(prompt, options))

BuildClientTextToImage ==
  \E prompt \in UserPrompts, options \in OptionInputs :
    built' = Built("client-text-to-image", <<>>, <<>>, options,
                   clientGenerateImageFromTextParts(prompt, options))

BuildReference ==
  \E prompt \in UserPrompts, referenceImages \in SeqsUpTo(Files, MaxImages) :
    \E order \in Orders(Len(referenceImages)) :
      built' = Built("reference", referenceImages, order, NoOptions,
                     generateWithReferenceParts(prompt, referenceImages, order))

BuildOptimize ==
  \E originalPrompt \in UserPrompts :
    built' = Built("optimize", <<>>, <<>>, NoOptions, optimizePromptParts(originalPrompt))

BuildAnalyze ==
  \E image \in Files :
    built' = Built("analyze", <<image>>, <<1>>, NoOptions, analyzeImageParts(image))

\* ------------------------------------------------------------------ services as the panels see them
\* handleApiResponse as one function: what the steps above return or throw
handleApiResponse(r, ctx) ==
  IF IsBlocked(r) THEN Rejected(BlockedError(r))
  ELSE LET imagePartFromResponse == ImagePartFromResponse(r)
       IN IF IsSome(imagePartFromResponse)
          THEN LET inlineData == Get(Get(imagePartFromResponse).inlineData)
               IN Resolved(DataUri(inlineData.mimeType, inlineData.data))
          ELSE IF StoppedEarly(r) THEN Rejected(StoppedEarlyError(r, ctx))
          ELSE Rejected(NoImageError(r, ctx))

\* handleApiResponse of the draw service, read from its own copy of the code
drawHandleApiResponse(r, ctx) ==
  LET promptFeedback == r.promptFeedback
      candidates == r.candidates
      first == IF IsSome(candidates) /\ Len(Get(candidates)) >= 1
               THEN Some(Head(Get(candidates))) ELSE None
      content == IF IsSome(first) THEN Get(first).content ELSE None
      parts == IF IsSome(content) THEN Get(content).parts ELSE None
      imagePartFromResponse == IF IsSome(parts) THEN Find(Get(parts)) ELSE None
      finishReason == IF IsSome(first) THEN Get(first).finishReason ELSE None
  IN IF IsSome(promptFeedback) /\ Truthy(Get(promptFeedback).blockReason)
     THEN Rejected(Error("Blocked", "", Get(Get(promptFeedback).blockReason),
                         IF Truthy(Get(promptFeedback).blockReasonMessage)
                         THEN Get(Get(promptFeedback).blockReasonMessage) ELSE "", None))
     ELSE IF IsSome(imagePartFromResponse) /\ IsSome(Get(imagePartFromResponse).inlineData)
     THEN Resolved(DataUri(Get(Get(imagePartFromResponse).inlineData).mimeType,
                           Get(Get(imagePartFromResponse).inlineData).data))
     ELSE IF Truthy(finishReason) /\ Get(finishReason) # "STOP"
     THEN Rejected(Error("StoppedEarly", ctx, Get(finishReason), "", None))
     ELSE LET textFeedback == TrimmedText(r.text)
          IN Rejected(Error("NoImageReturned", ctx, "", "",
                            IF TruthyText(textFeedback) THEN textFeedback ELSE None))

\* faulty variant: the finish reason is looked at before the image part
serverFinishReasonFirstMutant(r, ctx) ==
  IF ~IsBlocked(r) /\ StoppedEarly(r) THEN Rejected(StoppedEarlyError(r, ctx))
  ELSE handleApiResponse(r, ctx)
\* handleApiResponse of the proxy server, read from its own copy of the code
serverHandleApiResponse(r, ctx) ==
  LET blockReason == IF IsSome(r.promptFeedback) THEN Get(r.promptFeedback).blockReason ELSE None
      candidate == IF IsSome(r.candidates) /\ Len(Get(r.candidates)) > 0
                   THEN Some(Get(r.candidates)[1]) ELSE None
      parts == IF IsSome(candidate) /\ IsSome(Get(candidate).content)
               THEN Get(Get(candidate).content).parts ELSE None
      withInlineData == IF IsSome(parts)
                        THEN {k \in 1..Len(Get(parts)) : IsSome(Get(parts)[k].inlineData)}
                        ELSE {}
      finishReason == IF IsSome(candidate) THEN Get(candidate).finishReason ELSE None
      textFeedback == IF IsSome(r.text) THEN Some(Trim(Get(r.text))) ELSE None
  IN IF IsSome(blockReason) /\ Get(blockReason) # ""
     THEN LET blockReasonMessage == Get(r.promptFeedback).blockReasonMessage
          IN Rejected(Error("Blocked", "", Get(blockReason),
                            IF IsSome(blockReasonMessage) /\ Get(blockReasonMessage) # ""
                            THEN Get(blockReasonMessage) ELSE "", None))
     ELSE IF withInlineData # {}
     THEN LET first == CHOOSE k \in withInlineData : \A j \in withInlineData : k <= j
              inlineData == Get(Get(parts)[first].inlineData)
          IN Resolved(<<"data", ":">> \o inlineData.mimeType \o <<";", "base64", ",">>
                        \o inlineData.data)
     ELSE IF IsSome(finishReason) /\ Get(finishReason) # "" /\ Get(finishReason) # "STOP"
     THEN Rejected(Error("StoppedEarly", ctx, Get(finishReason), "", None))
     ELSE Rejected(Error("NoImageReturned", ctx, "", "",
                         IF IsSome(textFeedback) /\ Len(Get(textFeedback)) > 0
                         THEN textFeedback ELSE None))

\* optimizePrompt of the draw service as a settled promise
optimizePromptOutcome(res) ==
  IF ~IsSome(res) THEN Rejected(TransportError)
  ELSE LET optimizedText == TrimmedText(Get(res).text)
       IN IF ~TruthyText(optimizedText) THEN Rejected(Error("OptimizeFailed", "", "", "", None))
          ELSE Resolved(Get(optimizedText))

\* analyzeImage of the draw service as a settled promise
analyzeImageOutcome(res) ==
  IF ~IsSome(res) THEN Rejected(TransportError)
  ELSE LET analysisText == TrimmedText(Get(res).text)
       IN IF ~TruthyText(analysisText) THEN Rejected(Error("AnalyzeFailed", "", "", "", None))
          ELSE LET analysisResult == JsonParse(Get(analysisText))
               IN IF IsSome(analysisResult) THEN Resolved(Get(analysisResult))
                  ELSE Rejected(Error("MalformedResult", "", "", "", None))

\* what a proxy route answers: res.json({ success, ... }) or, from its catch,
\* res.status(500).json({ error: <the route's label>, details: error.message })
RouteJson(outcome, label) ==
  IF outcome.ok
  THEN [ok |-> TRUE, success |-> TRUE, payload |-> outcome.value, error |-> None, details |-> None]
  ELSE [ok |-> FALSE, success |-> FALSE, payload |-> None, error |-> Some(label),
        details |-> outcome.error]

\* handleApiResponse of the API client: the Error it throws carries errorData.error
clientHandleApiResponse(httpResponse) ==
  IF ~httpResponse.ok
  THEN Rejected(Error(IF IsSome(httpResponse.error) THEN "RouteError" ELSE "HttpError",
                      IF IsSome(httpResponse.error) THEN Get(httpResponse.error) ELSE "", "", "", None))
  ELSE IF ~httpResponse.success
  THEN Rejected(Error(IF IsSome(httpResponse.error) THEN "RouteError" ELSE "UnknownApiError",
                      IF IsSome(httpResponse.error) THEN Get(httpResponse.error) ELSE "", "", "", None))
  ELSE Resolved(Get(httpResponse.payload))

\* atob on the data alphabet; None when it throws
Atob(data) ==
  LET table == ("QUJD" :> "ABC") @@ ("REVG" :> "DEF") @@ ("QQ==" :> "A")
  IN IF \A k \in 1..Len(data) : data[k] \in DOMAIN table
     THEN Some([k \in 1..Len(data) |-> table[data[k]]])
     ELSE None

\* faulty variant: the type is taken from the file name, which ends in .png
dataURLtoFileAlwaysPngMutant(dataurl) ==
  LET arr == Split(dataurl, ",")
      bstr == Atob(arr[2])
  IN Resolved([name |-> "generated.png", type |-> MimePng, data |-> Get(bstr)])
\* dataURLtoFile of the panels
dataURLtoFile(dataurl) ==
  LET arr == Split(dataurl, ",")
  IN IF Len(arr) < 2 THEN Rejected(Error("InvalidDataURL", "", "", "", None))
     ELSE LET mimeMatch == MimeMatch(arr[1])
              bstr == Atob(arr[2])
          IN IF ~IsSome(mimeMatch) \/ Len(Get(mimeMatch)) = 0
             THEN Rejected(Error("NoMimeType", "", "", "", None))
             ELSE IF ~IsSome(bstr) THEN Rejected(Error("InvalidCharacter", "", "", "", None))
             ELSE Resolved([name |-> "generated.png", type |-> Get(mimeMatch), data |-> Get(bstr)])

\* provider responses the panels are run against
ImageResponse(part) ==
  [promptFeedback |-> None,
   candidates |-> Some(<<[content |-> Some([parts |-> Some(<<part>>)]),
                          finishReason |-> Some("STOP")]>>),
   text |-> None]
\* inlineData without data: the data URI ends in the text undefined
ImagePartNoData == ImagePart(MimePng, <<"undefined">>)
ImageSettled ==
  {None,
   Some(ImageResponse(ImagePartA)), Some(ImageResponse(ImagePartB)),
   Some(ImageResponse(ImagePartNoData)),
   Some([promptFeedback |-> Some([blockReason |-> Some("SAFETY"),
                                  blockReasonMessage |-> Some("policy")]),
         candidates |-> None, text |-> None]),
   Some([promptFeedback |-> None,
         candidates |-> Some(<<[content |-> None, finishReason |-> Some("SAFETY")]>>),
         text |-> None]),
   Some([promptFeedback |-> None, candidates |-> None, text |-> Some(<<"x">>)])}
TextSettled ==
  {None} \cup {Some([promptFeedback |-> None, candidates |-> None, text |-> tx]) :
                 tx \in {None, Some(<<"x">>), Some(<<"1">>)}}

ImageKinds == {"generateImageFromText", "generateWithReference"}
\* the operations TextToImagePanel imports from the API client
ProxyKinds == {"generateImageFromText", "optimizePrompt"}

\* the promise of a service call at the service that classified the response
ServiceOrigin(kind, settled) ==
  IF kind = "optimizePrompt" THEN optimizePromptOutcome(settled)
  ELSE IF kind = "analyzeImage" THEN analyzeImageOutcome(settled)
  ELSE IF ~IsSome(settled) THEN Rejected(TransportError)
  ELSE IF kind = "generateImageFromText"
  THEN serverHandleApiResponse(Get(settled), "text-to-image")
  ELSE drawHandleApiResponse(Get(settled), "reference-based")

\* the same promise as the panel awaits it
ServiceCall(kind, settled) ==
  IF kind \in ProxyKinds
  THEN clientHandleApiResponse(RouteJson(ServiceOrigin(kind, settled), kind))
  ELSE ServiceOrigin(kind, settled)

\* ------------------------------------------------------------------ the draw panels
\* Bound on the operations issued from the panels.
MaxOps == 2

VARIABLES
  activeMode,       \* DrawPanel: which panel is mounted
  generatedImages,  \* DrawPanel: the generated-images list
  panel,            \* the useState values of the mounted panel
  inflight,         \* service calls awaited by a handler; live: its panel is still mounted
  issued,           \* how many service calls were made
  last              \* observer: what the last step was

drawVars == <<activeMode, generatedImages, panel, inflight, issued, last>>

\* t(key, { error }) of useTranslation: the key and what is interpolated
translate(key, error) == [key |-> key, error |-> error]

\* the initial useState values of a panel
MountedPanel(initialReferenceImage) ==
  [prompt |-> <<>>, optimizedPrompt |-> None,
   isGenerating |-> FALSE, isOptimizing |-> FALSE, isAnalyzing |-> FALSE,
   error |-> None, generatedImageUrl |-> None,
   referenceImages |-> IF IsSome(initialReferenceImage)
                       THEN <<Get(initialReferenceImage)>> ELSE <<>>,
   selectedImage |-> None, analysisResult |-> None]

NoRequest == [id |-> 0, kind |-> "none", tag |-> -1, live |-> FALSE, prompt |-> <<>>, image |-> None]
Step(event, req, status, cause) ==
  [event |-> event, kind |-> req.kind, tag |-> req.tag, live |-> req.live,
   status |-> status, cause |-> cause, prompt |-> req.prompt, image |-> req.image]

DrawInit ==
  /\ activeMode = "textToImage"
  /\ generatedImages = <<>>
  /\ panel = MountedPanel(None)
  /\ inflight = {}
  /\ issued = 0
  /\ last = Step("none", NoRequest, "", None)

\* the History after an image was uploaded: reset(FileA)
UploadedInit ==
  /\ entries = <<[asset |-> FileA, seq |-> 1]>>
  /\ cursor = 0
  /\ nextSeq = 2
  /\ result = Answer("reset", TRUE, "", None)
  /\ script = NoScript
  /\ undoRedo = NoUndoRedo

\* onClick={() => setActiveMode(mode.key)}: the other panel is mounted with fresh state;
\* the handlers of the unmounted panel go on awaiting
setActiveMode(mode) ==
  /\ mode # activeMode
  /\ activeMode' = mode
  /\ \E referenceImage \in {None, Some(FileA)} :
       panel' = MountedPanel(IF mode = "reference" THEN referenceImage ELSE None)
  /\ inflight' = {[req EXCEPT !.live = FALSE] : req \in inflight}
  /\ last' = Step("setActiveMode", NoRequest, "", None)
  /\ UNCHANGED <<generatedImages, issued>>
  /\ UNCHANGED histVars

activePrompt == IF TruthyText(panel.optimizedPrompt) THEN Get(panel.optimizedPrompt) ELSE panel.prompt
Blank(s) == Len(Trim(s)) = 0

\* TextToImagePanel.handlePromptChange
handlePromptChange(value) ==
  /\ activeMode = "textToImage"
  /\ ~(panel.isGenerating \/ panel.isOptimizing)
  /\ panel' = [panel EXCEPT !.prompt = value, !.optimizedPrompt = None, !.error = None]
  /\ last' = Step("handlePromptChange", NoRequest, "", None)
  /\ UNCHANGED <<activeMode, generatedImages, inflight, issued>>
  /\ UNCHANGED histVars

\* TextToImagePanel.handlePresetClick, behind the preset buttons
handlePresetClick(presetPrompt) ==
  /\ activeMode = "textToImage"
  /\ ~(panel.isGenerating \/ panel.isOptimizing)
  /\ panel' = [panel EXCEPT !.prompt = presetPrompt, !.optimizedPrompt = None, !.error = None]
  /\ last' = Step("handlePresetClick", NoRequest, "", None)
  /\ UNCHANGED <<activeMode, generatedImages, inflight, issued>>
  /\ UNCHANGED histVars

\* TextToImagePanel.handleUseOptimized; its button is rendered while optimizedPrompt
\* is truthy and is never disabled
handleUseOptimized ==
  /\ activeMode = "textToImage"
  /\ TruthyText(panel.optimizedPrompt)
  /\ panel' = [panel EXCEPT !.prompt = Get(panel.optimizedPrompt), !.optimizedPrompt = None]
  /\ last' = Step("handleUseOptimized", NoRequest, "", None)
  /\ UNCHANGED <<activeMode, generatedImages, inflight, issued>>
  /\ UNCHANGED histVars

\* TextToImagePanel: onClick={() => setOptimizedPrompt(null)} of the keep-original button
keepOriginal ==
  /\ activeMode = "textToImage"
  /\ TruthyText(panel.optimizedPrompt)
  /\ panel' = [panel EXCEPT !.optimizedPrompt = None]
  /\ last' = Step("keepOriginal", NoRequest, "", None)
  /\ UNCHANGED <<activeMode, generatedImages, inflight, issued>>
  /\ UNCHANGED histVars

\* ReferencePanel: onChange={(e) => setPrompt(e.target.value)}
setPrompt(value) ==
  /\ activeMode = "reference"
  /\ ~panel.isGenerating
  /\ panel' = [panel EXCEPT !.prompt = value]
  /\ last' = Step("setPrompt", NoRequest, "", None)
  /\ UNCHANGED <<activeMode, generatedImages, inflight, issued>>
  /\ UNCHANGED histVars

\* AnalysisPanel.handleFileSelect, reached from the file input behind its buttons
handleFileSelect(file) ==
  /\ activeMode = "analysis"
  /\ ~panel.isAnalyzing
  /\ panel' = IF file.type \in {MimePng, MimeJpeg}
              THEN [panel EXCEPT !.selectedImage = Some(file), !.error = None,
                                 !.analysisResult = None]
              ELSE [panel EXCEPT !.error = Some(translate("unsupportedFormat", None))]
  /\ last' = Step("handleFileSelect", NoRequest, "", None)
  /\ UNCHANGED <<activeMode, generatedImages, inflight, issued>>
  /\ UNCHANGED histVars

\* AnalysisPanel.handleDrop: the drop zone hands the files to handleFileSelect and
\* is never disabled
handleDrop(file) ==
  /\ activeMode = "analysis"
  /\ panel' = IF file.type \in {MimePng, MimeJpeg}
              THEN [panel EXCEPT !.selectedImage = Some(file), !.error = None,
                                 !.analysisResult = None]
              ELSE [panel EXCEPT !.error = Some(translate("unsupportedFormat", None))]
  /\ last' = Step("handleDrop", NoRequest, "", None)
  /\ UNCHANGED <<activeMode, generatedImages, inflight, issued>>
  /\ UNCHANGED histVars

\* a handler reaches its await: the service call is made
Await(kind, busy, prompt, image) ==
  LET req == [id |-> issued + 1, kind |-> kind, tag |-> cursor, live |-> TRUE,
              prompt |-> prompt, image |-> image]
  IN /\ issued < MaxOps
     /\ panel' = [panel EXCEPT ![busy] = TRUE, !.error = None]
     /\ inflight' = inflight \cup {req}
     /\ issued' = issued + 1
     /\ last' = Step("issue", req, "Sending", None)

\* a handler returns early with a message
EarlyReturn(key) ==
  /\ panel' = [panel EXCEPT !.error = Some(translate(key, None))]
  /\ last' = Step("rejected", NoRequest, "", None)
  /\ UNCHANGED <<inflight, issued>>

\* TextToImagePanel.handleGenerate up to its await, behind its button
handleGenerate ==
  /\ activeMode = "textToImage"
  /\ ~(panel.isGenerating \/ panel.isOptimizing \/ Blank(activePrompt))
  /\ IF Blank(activePrompt) THEN EarlyReturn("noPrompt")
     ELSE Await("generateImageFromText", "isGenerating", activePrompt, None)
  /\ UNCHANGED <<activeMode, generatedImages>>
  /\ UNCHANGED histVars

\* ReferencePanel.handleGenerate up to its await, behind its button
handleGenerateWithReference ==
  /\ activeMode = "reference"
  /\ ~(panel.isGenerating \/ Len(panel.referenceImages) = 0 \/ Blank(panel.prompt))
  /\ IF Len(panel.referenceImages) = 0 THEN EarlyReturn("noReference")
     ELSE IF Blank(panel.prompt) THEN EarlyReturn("noPrompt")
     ELSE Await("generateWithReference", "isGenerating", panel.prompt, None)
  /\ UNCHANGED <<activeMode, generatedImages>>
  /\ UNCHANGED histVars

\* TextToImagePanel.handleOptimizePrompt up to its await, behind its button
handleOptimizePrompt ==
  /\ activeMode = "textToImage"
  /\ ~(panel.isGenerating \/ panel.isOptimizing \/ Blank(panel.prompt))
  /\ IF Blank(panel.prompt) THEN EarlyReturn("noPrompt")
     ELSE Await("optimizePrompt", "isOptimizing", panel.prompt, None)
  /\ UNCHANGED <<activeMode, generatedImages>>
  /\ UNCHANGED histVars

\* AnalysisPanel.handleAnalyze up to its await, behind its button
handleAnalyze ==
  /\ activeMode = "analysis"
  /\ IsSome(panel.selectedImage)
  /\ ~panel.isAnalyzing
  /\ IF ~IsSome(panel.selectedImage) THEN EarlyReturn("noImageToAnalyze")
     ELSE Await("analyzeImage", "isAnalyzing", <<>>, panel.selectedImage)
  /\ UNCHANGED <<activeMode, generatedImages>>
  /\ UNCHANGED histVars

\* a state setter of a panel: nothing happens once the panel is unmounted
SetState(req, updated) == IF req.live THEN updated ELSE panel

\* the onImageGenerated the application hands to DrawPanel: the new version is pushed
onImageGenerated(imageFile) == push(Some(imageFile))

\* faulty variant: the file is appended twice
handleImageGeneratedTwiceMutant(imageFile) ==
  /\ generatedImages' = generatedImages \o <<imageFile, imageFile>>
  /\ onImageGenerated(imageFile)
\* DrawPanel.handleImageGenerated
handleImageGenerated(imageFile) ==
  /\ generatedImages' = Append(generatedImages, imageFile)
  /\ onImageGenerated(imageFile)

\* faulty variant: the flag is left as it is
FinallySkippedMutant(state, busy) == state
\* finally { setIsGenerating(false) } (setIsOptimizing, setIsAnalyzing)
Finally(state, busy) == [state EXCEPT ![busy] = FALSE]

\* handleGenerate of either panel from its await on: try, catch, finally
GenerateSettles(req, settled) ==
  LET awaited == ServiceCall(req.kind, settled)
      cause == ServiceOrigin(req.kind, settled).error
  IN IF awaited.ok
     THEN LET imageUrl == Get(awaited.value)
              imageFile == dataURLtoFile(imageUrl)
          IN IF imageFile.ok
             THEN /\ panel' = SetState(req, Finally([panel EXCEPT !.generatedImageUrl = Some(imageUrl)],
                                                     "isGenerating"))
                  /\ handleImageGenerated(Get(imageFile.value))
                  /\ last' = Step("complete", req, "Succeeded", None)
             ELSE /\ panel' = SetState(req, Finally([panel EXCEPT
                                 !.generatedImageUrl = Some(imageUrl),
                                 !.error = Some(translate("generateFailed", imageFile.error))],
                                 "isGenerating"))
                  /\ last' = Step("complete", req, "Failed", imageFile.error)
                  /\ UNCHANGED generatedImages
                  /\ UNCHANGED histVars
     ELSE /\ panel' = SetState(req, Finally([panel EXCEPT
                         !.error = Some(translate("generateFailed", awaited.error))],
                         "isGenerating"))
          /\ last' = Step("complete", req, "Failed", cause)
          /\ UNCHANGED generatedImages
          /\ UNCHANGED histVars

\* faulty variant: the optimized prompt replaces the result image as well
setOptimizedPromptClearsImageMutant(state, optimized) ==
  [state EXCEPT !.optimizedPrompt = Some(optimized), !.generatedImageUrl = None]
\* setOptimizedPrompt(optimized)
setOptimizedPrompt(state, optimized) == [state EXCEPT !.optimizedPrompt = Some(optimized)]

\* handleOptimizePrompt and handleAnalyze from their await on
TextSettles(req, settled) ==
  LET awaited == ServiceCall(req.kind, settled)
      cause == ServiceOrigin(req.kind, settled).error
      optimizing == req.kind = "optimizePrompt"
      finally == Finally(panel, IF optimizing THEN "isOptimizing" ELSE "isAnalyzing")
  IN /\ panel' = SetState(req,
                   IF ~awaited.ok
                   THEN [finally EXCEPT !.error =
                           Some(translate(IF optimizing THEN "optimizeFailed" ELSE "analysisFailed",
                                  awaited.error))]
                   ELSE IF optimizing THEN setOptimizedPrompt(finally, Get(awaited.value))
                   ELSE [finally EXCEPT !.analysisResult = awaited.value])
     /\ last' = Step("complete", req, IF awaited.ok THEN "Succeeded" ELSE "Failed", cause)
     /\ UNCHANGED generatedImages
     /\ UNCHANGED histVars

\* an awaited service call settles and its handler runs to the end
Settles ==
  /\ inflight # {}
  /\ \E req \in inflight :
       /\ inflight' = inflight \ {req}
       /\ UNCHANGED <<activeMode, issued>>
       /\ IF req.kind \in ImageKinds
          THEN \E settled \in ImageSettled : GenerateSettles(req, settled)
          ELSE \E settled \in TextSettled : TextSettles(req, settled)

\* ------------------------------------------------------------------ display handles of the History Store
VARIABLES
  created,   \* the entries (by seq) whose display handle was created
  releases,  \* how often the display handle of each entry was released
  pending    \* the in-flight request: the entry it was issued against and its cursor tag

storeVars == <<created, releases, pending>>

StoreInit ==
  /\ created = {}
  /\ releases = [s \in 1..MaxSeq |-> 0]
  /\ pending = None

SeqsOf(es) == {es[k].seq : k \in 1..Len(es)}
PendingSeq == IF IsSome(pending) THEN Some(Get(pending).seq) ELSE None

\* faulty variant: the entry held by the in-flight request is released with the others
ReleaseDiscardedHeldTooMutant(before, after, held) ==
  [s \in 1..MaxSeq |->
     IF s \in (SeqsOf(before) \ SeqsOf(after)) \cap created
     THEN releases[s] + 1 ELSE releases[s]]
\* the release counts after an operation turned the entries before into the entries after:
\* the handle of each discarded entry is released, except the one an in-flight request holds
ReleaseDiscarded(before, after, held) ==
  [s \in 1..MaxSeq |->
     IF s \in (SeqsOf(before) \ SeqsOf(after)) \cap created /\ Some(s) # held
     THEN releases[s] + 1 ELSE releases[s]]

\* an image is uploaded: reset, and the handles of the old entries are released
Upload(asset) ==
  /\ reset(asset)
  /\ releases' = ReleaseDiscarded(entries, entries', PendingSeq)
  /\ UNCHANGED <<created, pending>>

\* the current version is shown: its handle is created on first display
Display ==
  /\ Len(entries) > 0
  /\ current
  /\ created' = created \cup {entries[cursor + 1].seq}
  /\ UNCHANGED <<releases, pending>>

\* an image-producing operation is issued against the current version
IssueRequest ==
  /\ Len(entries) > 0
  /\ ~IsSome(pending)
  /\ pending' = Some([seq |-> entries[cursor + 1].seq, tag |-> cursor])
  /\ UNCHANGED <<created, releases>>
  /\ UNCHANGED histVars

\* the request completes: a fresh result is pushed, a stale or failed one is dropped;
\* the handle of its entry is released now if the entry was discarded meanwhile
CompleteRequest(outcome) ==
  /\ IsSome(pending)
  /\ pending' = None
  /\ UNCHANGED created
  /\ LET req == Get(pending)
         heldBack == IF req.seq \in created /\ req.seq \notin SeqsOf(entries) THEN 1 ELSE 0
     IN IF IsSome(outcome) /\ req.tag = cursor
        THEN /\ push(outcome)
             /\ releases' = [ReleaseDiscarded(entries, entries', None)
                               EXCEPT ![req.seq] = @ + heldBack]
        ELSE /\ releases' = [releases EXCEPT ![req.seq] = @ + heldBack]
             /\ UNCHANGED histVars

\* ------------------------------------------------------------------ the data URI round trip
\* Bound on the number of three-byte chunks of an image.
MaxChunks == 3

\* images: a MIME type and bytes, whose last chunk may be a single byte
ImageAssets ==
  [name : {"asset"},
   type : {MimePng, MimeJpeg, <<"image/webp">>},
   data : {full \o rest : full \in SeqsUpTo({"ABC", "DEF"}, MaxChunks), rest \in {<<>>, <<"A">>}}]

VARIABLES trip   \* an image on its way to a data URI and back

codecVars == <<trip>>

CodecInit == trip = [stage |-> "none", asset |-> None, uri |-> None, decoded |-> None]

\* the image goes out as a part (fileToPart) and comes back as the classifier's data URI
EncodeAsset ==
  /\ trip.stage # "encoded"
  /\ \E asset \in ImageAssets :
       LET part == fileToPart(asset)
           inlineData == Get(Get(part.value).inlineData)
       IN trip' = [stage |-> "encoded", asset |-> Some(asset),
                   uri |-> IF part.ok THEN Some(DataUri(inlineData.mimeType, inlineData.data))
                           ELSE None,
                   decoded |-> None]

\* the panel decodes the data URI (dataURLtoFile)
DecodeUri ==
  /\ trip.stage = "encoded"
  /\ IsSome(trip.uri)
  /\ LET imageFile == dataURLtoFile(Get(trip.uri))
     IN trip' = [trip EXCEPT !.stage = "decoded", !.decoded = imageFile.value]

\* ------------------------------------------------------------------ the proxy's image routes
ImageRoutes == {"/api/edit-image", "/api/apply-filter", "/api/adjust-image", "/api/text-to-image"}
\* the routes behind upload.single('image')
UploadRoutes == ImageRoutes \ {"/api/text-to-image"}

\* the context each route hands to handleApiResponse
RouteContext(route) ==
  CASE route = "/api/edit-image" -> "edit"
    [] route = "/api/apply-filter" -> "filter"
    [] route = "/api/adjust-image" -> "adjustment"
    [] route = "/api/text-to-image" -> "text-to-image"

\* the error label of each route's catch (glossed)
RouteLabel(route) ==
  CASE route = "/api/edit-image" -> "image edit failed"
    [] route = "/api/apply-filter" -> "filter failed"
    [] route = "/api/adjust-image" -> "adjustment failed"
    [] route = "/api/text-to-image" -> "image generation failed"

\* an upload that is not an image
FilePdf == [name |-> "a.pdf", type |-> <<"application/pdf">>, data |-> <<"ABC">>]
Uploads == {None, Some(FileA), Some(FileB), Some(FilePdf)}
\* multipart fields arrive as text; 0 arrives as "0"
Coordinates == {None, Some("0"), Some("5")}
Requests ==
  [route : ImageRoutes, file : Uploads, prompt : Prompts, x : Coordinates, y : Coordinates]

\* file.mimetype.startsWith('image/')
IsImageType(type) == type \in {MimePng, MimeJpeg, <<"image/webp">>}

\* res.status(status).json(body)
JsonResponse(status, success, imageUrl, error, details) ==
  [status |-> status, json |-> TRUE, success |-> success, imageUrl |-> imageUrl,
   error |-> error, details |-> details]
\* what Express answers when a middleware passes an error on and no error
\* handler is installed: status 500 and an HTML page
DefaultErrorResponse ==
  [status |-> 500, json |-> FALSE, success |-> FALSE, imageUrl |-> None,
   error |-> None, details |-> None]

VARIABLES
  exchange   \* one HTTP exchange of the proxy: the request, where it is, the
             \* responses sent, the provider requests issued

proxyVars == <<exchange>>

NoExchange ==
  [stage |-> "idle", request |-> None, responses |-> <<>>, providerRequests |-> 0,
   settled |-> None]

ProxyInit == exchange = NoExchange

\* a request reaches one of the image routes
Receive ==
  /\ exchange.stage \in {"idle", "answered"}
  /\ \E request \in Requests :
       exchange' = [NoExchange EXCEPT !.stage = "received", !.request = Some(request)]

\* upload.single('image') and its fileFilter, in front of the three upload routes
UploadSingle ==
  /\ exchange.stage = "received"
  /\ LET request == Get(exchange.request)
     IN IF /\ request.route \in UploadRoutes
           /\ IsSome(request.file)
           /\ ~IsImageType(Get(request.file).type)
        THEN exchange' = [exchange EXCEPT !.stage = "answered",
                                          !.responses = Append(@, DefaultErrorResponse)]
        ELSE exchange' = [exchange EXCEPT !.stage = "handler"]

\* the routes' 400 conditions: !req.file, !prompt, x === undefined || y === undefined
MissingInput(request) ==
  \/ request.route \in UploadRoutes /\ ~IsSome(request.file)
  \/ ~TruthyText(request.prompt)
  \/ request.route = "/api/edit-image" /\ (~IsSome(request.x) \/ ~IsSome(request.y))

\* the route handler up to its await: the 400 answers, or the provider request
RouteHandler ==
  /\ exchange.stage = "handler"
  /\ IF MissingInput(Get(exchange.request))
     THEN exchange' = [exchange EXCEPT
                         !.stage = "answered",
                         !.responses = Append(@, JsonResponse(400, FALSE, None,
                                                              Some("missing input"), None))]
     ELSE exchange' = [exchange EXCEPT !.stage = "awaiting", !.providerRequests = @ + 1]

\* the route handler from its await on: the classifier, res.json or the catch
ProviderSettles ==
  /\ exchange.stage = "awaiting"
  /\ \E settled \in ImageSettled :
       LET route == Get(exchange.request).route
           outcome == IF IsSome(settled)
                      THEN serverHandleApiResponse(Get(settled), RouteContext(route))
                      ELSE Rejected(TransportError)
       IN exchange' = [exchange EXCEPT
            !.stage = "answered",
            !.settled = Some(settled),
            !.responses = Append(@,
               IF outcome.ok
               THEN JsonResponse(200, TRUE, outcome.value, None, None)
               ELSE JsonResponse(500, FALSE, None, Some(RouteLabel(route)), outcome.error))]

\* ------------------------------------------------------------------ the theme context
\* Bound on the events the ThemeProvider handles after it mounts.
MaxEvents == 4

\* faulty variant: light and auto change places
themesReorderedMutant == <<"dark", "auto", "light">>
\* const themes: Theme[] = ['dark', 'light', 'auto']
themes == <<"dark", "light", "auto">>

\* what localStorage may hold under 'theme' when the provider mounts
SavedThemes == {None, Some("dark"), Some("light"), Some("auto"), Some("sepia")}

VARIABLES
  theme,              \* useState: the user's theme; "" before the provider mounts
  systemPrefersDark,  \* useState: (prefers-color-scheme: dark) matches
  localStorage,       \* the item stored under 'theme' (an option)
  dataTheme,          \* the data-theme attribute of the document element
  trail               \* observer: the events handled since the mount

themeVars == <<theme, systemPrefersDark, localStorage, dataTheme, trail>>

ThemeInit ==
  /\ theme = ""
  /\ systemPrefersDark = FALSE
  /\ localStorage = None
  /\ dataTheme = ""
  /\ trail = <<>>

\* theme === 'auto' ? (systemPrefersDark ? 'dark' : 'light') : theme
actualTheme == IF theme = "auto" THEN (IF systemPrefersDark THEN "dark" ELSE "light") ELSE theme

\* Array.prototype.indexOf: the zero-based index, -1 when absent
ArrayIndexOf(array, item) ==
  IF \E k \in 1..Len(array) : array[k] = item
  THEN (CHOOSE k \in 1..Len(array) : array[k] = item /\ \A j \in 1..(k - 1) : array[j] # item) - 1
  ELSE -1

Handled(event) ==
  trail' = Append(trail, [event |-> event, before |-> theme, after |-> theme',
                          stored |-> localStorage'])

\* ThemeProvider's first render and its effects: savedTheme || 'auto'
Mount ==
  /\ theme = ""
  /\ \E savedTheme \in SavedThemes :
       /\ localStorage' = savedTheme
       /\ theme' = IF Truthy(savedTheme) THEN Get(savedTheme) ELSE "auto"
  /\ \E matches \in BOOLEAN : systemPrefersDark' = matches
  /\ dataTheme' = actualTheme'
  /\ trail' = <<>>

\* setTheme(newTheme), called from the handler named by the event, and the effect
\* that follows the render
SetThemeFrom(event, newTheme) ==
  /\ theme # ""
  /\ Len(trail) < MaxEvents
  /\ theme' = newTheme
  /\ localStorage' = Some(newTheme)
  /\ UNCHANGED systemPrefersDark
  /\ dataTheme' = actualTheme'
  /\ Handled(event)

setTheme(newTheme) == SetThemeFrom("setTheme", newTheme)

toggleTheme ==
  LET currentIndex == ArrayIndexOf(themes, theme)
      nextTheme == themes[((currentIndex + 1) % Len(themes)) + 1]
  IN SetThemeFrom("toggleTheme", nextTheme)

\* the media query listener, and the effect that follows the render
handleChange(matches) ==
  /\ theme # ""
  /\ Len(trail) < MaxEvents
  /\ systemPrefersDark' = matches
  /\ UNCHANGED <<theme, localStorage>>
  /\ dataTheme' = actualTheme'
  /\ Handled("handleChange")

\* ------------------------------------------------------------------ the reference images
\* Bound on the files of one selection.
MaxFiles == 3

\* e.target.files / e.dataTransfer.files: null, or the files in the order they were chosen
FileLists == {None} \cup {Some(files) : files \in UNION {[1..n -> {FileA, FileB, FilePdf}] : n \in 0..MaxFiles}}

VARIABLES
  referenceImages   \* useState of ReferencePanel

refVars == <<referenceImages>>

ReferenceInit == referenceImages = <<>>

\* Math.min with the loop's i < ... : how many files the loop looks at
LoopCount(files, length) ==
  LET room == 3 - length
      least == IF Len(files) < room THEN Len(files) ELSE room
  IN IF least < 0 THEN 0 ELSE least

RECURSIVE FilterImages(_)
FilterImages(files) ==
  IF Len(files) = 0 THEN <<>>
  ELSE IF IsImageType(Head(files).type) THEN <<Head(files)>> \o FilterImages(Tail(files))
  ELSE FilterImages(Tail(files))

\* the validFiles of one call of handleFileSelect whose closure holds the given
\* referenceImages.length
ValidFiles(files, length) ==
  IF ~IsSome(files) THEN <<>>
  ELSE FilterImages(SubSeq(Get(files), 1, LoopCount(Get(files), length)))

\* ReferencePanel.handleFileSelect, from the file input or from the drop zone, and the
\* render that follows
selectReferenceFiles(files) ==
  referenceImages' = referenceImages \o ValidFiles(files, Len(referenceImages))

\* two selections handled by the handleFileSelect of one render: both read the
\* referenceImages.length of that render, and the updaters run one after the other
selectReferenceFilesTwice(files, more) ==
  referenceImages' = (referenceImages \o ValidFiles(files, Len(referenceImages)))
                       \o ValidFiles(more, Len(referenceImages))

\* removeReferenceImage(index): prev.filter((_, i) => i !== index)
removeReferenceImage(index) ==
  /\ index < Len(referenceImages)
  /\ referenceImages' = [k \in 1..(Len(referenceImages) - 1) |->
                           IF k <= index THEN referenceImages[k] ELSE referenceImages[k + 1]]

\* ------------------------------------------------------------------ specifications
vars == <<pc, op, response, context, returned, thrown, sent,
          entries, cursor, nextSeq, result, script, undoRedo,
          built,
          activeMode, generatedImages, panel, inflight, issued, last,
          created, releases, pending,
          trip,
          exchange,
          theme, systemPrefersDark, localStorage, dataTheme, trail,
          referenceImages>>

\* what the steps of one layer leave alone
outsideResp == <<histVars, buildVars, drawVars, storeVars, codecVars, proxyVars, themeVars, refVars>>
outsideHist == <<respVars, buildVars, drawVars, storeVars, codecVars, proxyVars, themeVars, refVars>>
outsideBuild == <<respVars, histVars, drawVars, storeVars, codecVars, proxyVars, themeVars, refVars>>
outsideDraw == <<respVars, buildVars, storeVars, codecVars, proxyVars, themeVars, refVars>>
outsideStore == <<respVars, buildVars, drawVars, codecVars, proxyVars, themeVars, refVars>>
outsideCodec == <<respVars, histVars, buildVars, drawVars, storeVars, proxyVars, themeVars, refVars>>
outsideProxy == <<respVars, histVars, buildVars, drawVars, storeVars, codecVars, themeVars, refVars>>
outsideTheme == <<respVars, histVars, buildVars, drawVars, storeVars, codecVars, proxyVars, refVars>>
outsideRef == <<respVars, histVars, buildVars, drawVars, storeVars, codecVars, proxyVars, themeVars>>

Init == RespInit /\ HistInit /\ BuildInit /\ DrawInit /\ StoreInit /\ CodecInit
        /\ ProxyInit /\ ThemeInit /\ ReferenceInit

\* the response layer
Next ==
  \/ CallHandleApiResponse /\ UNCHANGED outsideResp
  \/ CheckBlock /\ UNCHANGED outsideResp
  \/ FindImagePart /\ UNCHANGED outsideResp
  \/ CheckFinishReason /\ UNCHANGED outsideResp
  \/ ThrowNoImage /\ UNCHANGED outsideResp
  \/ pc = "idle" /\ (\E res \in Settled : OptimizePrompt(res)) /\ UNCHANGED outsideResp
  \/ pc = "idle" /\ (\E res \in Settled : AnalyzeImage(res)) /\ UNCHANGED outsideResp
  \/ pc = "idle" /\ (\E prompt \in Prompts, res \in Settled : RouteOptimizePrompt(prompt, res))
       /\ UNCHANGED outsideResp
  \/ Finish /\ UNCHANGED outsideResp

Spec == Init /\ [][Next]_vars

\* handleApiResponse is synchronous code: once entered it runs to its end
HandlerStep == (CheckBlock \/ FindImagePart \/ CheckFinishReason \/ ThrowNoImage) /\ UNCHANGED outsideResp

FairSpec == Spec /\ WF_vars(HandlerStep)

\* the History Store
HistNext ==
  \/ \E asset \in {None} \cup {Some(a) : a \in Assets} : push(asset) /\ UNCHANGED outsideHist
  \/ undo /\ UNCHANGED outsideHist
  \/ redo /\ UNCHANGED outsideHist
  \/ current /\ UNCHANGED outsideHist
  \/ \E asset \in Assets : reset(asset) /\ UNCHANGED outsideHist

HistorySpec == Init /\ [][HistNext]_vars

BuildNext ==
  \/ BuildEdit /\ UNCHANGED outsideBuild
  \/ BuildFilter /\ UNCHANGED outsideBuild
  \/ BuildAdjust /\ UNCHANGED outsideBuild
  \/ BuildTextToImage /\ UNCHANGED outsideBuild
  \/ BuildRouteTextToImage /\ UNCHANGED outsideBuild
  \/ BuildClientTextToImage /\ UNCHANGED outsideBuild
  \/ BuildReference /\ UNCHANGED outsideBuild
  \/ BuildOptimize /\ UNCHANGED outsideBuild
  \/ BuildAnalyze /\ UNCHANGED outsideBuild

BuilderSpec == Init /\ [][BuildNext]_vars

DrawNext ==
  \/ \E mode \in {"textToImage", "reference", "analysis"} : setActiveMode(mode) /\ UNCHANGED outsideDraw
  \/ \E value \in {<<>>, <<"p">>} : handlePromptChange(value) /\ UNCHANGED outsideDraw
  \/ handlePresetClick(<<"p">>) /\ UNCHANGED outsideDraw
  \/ handleUseOptimized /\ UNCHANGED outsideDraw
  \/ keepOriginal /\ UNCHANGED outsideDraw
  \/ \E value \in {<<>>, <<"p">>} : setPrompt(value) /\ UNCHANGED outsideDraw
  \/ \E file \in Files \cup {[name |-> "n.txt", type |-> <<"text/plain">>, data |-> <<"ABC">>]} :
       handleFileSelect(file) /\ UNCHANGED outsideDraw
  \/ \E file \in Files \cup {[name |-> "n.txt", type |-> <<"text/plain">>, data |-> <<"ABC">>]} :
       handleDrop(file) /\ UNCHANGED outsideDraw
  \/ handleGenerate /\ UNCHANGED outsideDraw
  \/ handleGenerateWithReference /\ UNCHANGED outsideDraw
  \/ handleOptimizePrompt /\ UNCHANGED outsideDraw
  \/ handleAnalyze /\ UNCHANGED outsideDraw
  \/ Settles /\ UNCHANGED outsideDraw

\* the draw panels open on an uploaded image
DrawSpecInit == RespInit /\ UploadedInit /\ BuildInit /\ DrawInit /\ StoreInit /\ CodecInit
        /\ ProxyInit /\ ThemeInit /\ ReferenceInit

DrawSpec == DrawSpecInit /\ [][DrawNext]_vars

\* the transport resolves or rejects every request: a service call that is awaited settles
DrawFairSpec == DrawSpec /\ WF_vars(Settles /\ UNCHANGED outsideDraw)

StoreNext ==
  \/ \E asset \in Assets : Upload(asset) /\ UNCHANGED outsideStore
  \/ Display /\ UNCHANGED outsideStore
  \/ IssueRequest /\ UNCHANGED outsideStore
  \/ \E outcome \in {None} \cup {Some(a) : a \in Assets} :
       CompleteRequest(outcome) /\ UNCHANGED outsideStore
  \/ undo /\ UNCHANGED storeVars /\ UNCHANGED outsideStore
  \/ redo /\ UNCHANGED storeVars /\ UNCHANGED outsideStore

StoreSpec == Init /\ [][StoreNext]_vars

CodecNext ==
  \/ EncodeAsset /\ UNCHANGED outsideCodec
  \/ DecodeUri /\ UNCHANGED outsideCodec

CodecSpec == Init /\ [][CodecNext]_vars

ProxyNext ==
  \/ Receive /\ UNCHANGED outsideProxy
  \/ UploadSingle /\ UNCHANGED outsideProxy
  \/ RouteHandler /\ UNCHANGED outsideProxy
  \/ ProviderSettles /\ UNCHANGED outsideProxy

ProxySpec == Init /\ [][ProxyNext]_vars

ThemeNext ==
  \/ Mount /\ UNCHANGED outsideTheme
  \/ \E newTheme \in {"dark", "light", "auto"} : setTheme(newTheme) /\ UNCHANGED outsideTheme
  \/ toggleTheme /\ UNCHANGED outsideTheme
  \/ \E matches \in BOOLEAN : handleChange(matches) /\ UNCHANGED outsideTheme

ThemeSpec == Init /\ [][ThemeNext]_vars

ReferenceNext ==
  \/ \E files \in FileLists : selectReferenceFiles(files) /\ UNCHANGED outsideRef
  \/ \E files \in FileLists, more \in FileLists :
       selectReferenceFilesTwice(files, more) /\ UNCHANGED outsideRef
  \/ \E index \in 0..(2 * MaxFiles) : removeReferenceImage(index) /\ UNCHANGED outsideRef

ReferenceSpec == Init /\ [][ReferenceNext]_vars

\* ------------------------------------------------------------------ what the claims speak of
\* handleApiResponse has run to its end on the response r
Classified == op = "handleApiResponse" /\ pc = "done"

TheResponse == Get(response)

\* promptFeedback.blockReason is present
BlockReasonPresent(r) ==
  IsSome(r.promptFeedback) /\ IsSome(Get(r.promptFeedback).blockReason)

\* the parts of candidates[0].content, <<>> where any of them is missing
PartsGiven(r) ==
  IF /\ IsSome(r.candidates)
     /\ Len(Get(r.candidates)) >= 1
     /\ IsSome(Get(r.candidates)[1].content)
     /\ IsSome(Get(Get(r.candidates)[1].content).parts)
  THEN Get(Get(Get(r.candidates)[1].content).parts)
  ELSE <<>>

InlineIndexes(r) == {i \in 1..Len(PartsGiven(r)) : IsSome(PartsGiven(r)[i].inlineData)}

HasInlineData(r) == InlineIndexes(r) # {}

FirstInlinePart(r) ==
  PartsGiven(r)[CHOOSE i \in InlineIndexes(r) : \A j \in InlineIndexes(r) : i <= j]

\* candidates[0].finishReason, None where it is missing
FinishReasonGiven(r) ==
  IF IsSome(r.candidates) /\ Len(Get(r.candidates)) >= 1
  THEN Get(r.candidates)[1].finishReason
  ELSE None

FinishedNormally(r) == FinishReasonGiven(r) \in {None, Some("STOP")}

TextEmptyOrAbsent(r) == r.text \in {None, Some(<<>>)}

\* the single outcome kinds
IsSuccess == Len(returned) = 1 /\ thrown = <<>>
IsThrown(kind) == returned = <<>> /\ Len(thrown) = 1 /\ thrown[1].kind = kind

\* C1: a response whose promptFeedback.blockReason is present is classified Blocked,
\* with that blockReason and its message, and never Success, whatever else it holds.
C1_BlockedFirst ==
  (Classified /\ BlockReasonPresent(TheResponse)) =>
    /\ IsThrown("Blocked")
    /\ thrown[1].reason = Get(Get(TheResponse.promptFeedback).blockReason)
    /\ thrown[1].message =
         (IF IsSome(Get(TheResponse.promptFeedback).blockReasonMessage)
          THEN Get(Get(TheResponse.promptFeedback).blockReasonMessage)
          ELSE "")

\* a blocked response that also carries an image and a finishReason has been classified
C1_Witness ==
  /\ Classified
  /\ BlockReasonPresent(TheResponse)
  /\ HasInlineData(TheResponse)
  /\ FinishReasonGiven(TheResponse) = Some("SAFETY")
  /\ TruthyText(TheResponse.text)
  /\ IsThrown("Blocked")

\* C2: without blockReason, a response with an inline-data part is classified Success
\* with the data URI of the first such part, whatever finishReason and text are.
C2_FirstImageWins ==
  (Classified /\ ~BlockReasonPresent(TheResponse) /\ HasInlineData(TheResponse)) =>
    /\ IsSuccess
    /\ LET d == Get(FirstInlinePart(TheResponse).inlineData)
       IN returned[1] = <<"data", ":">> \o d.mimeType \o <<";", "base64", ",">> \o d.data

\* a text part precedes the image, finishReason is not STOP, text is present
C2_Witness ==
  /\ Classified
  /\ ~BlockReasonPresent(TheResponse)
  /\ PartsGiven(TheResponse) = <<TextPart, ImagePartA>>
  /\ FinishReasonGiven(TheResponse) = Some("SAFETY")
  /\ TruthyText(TheResponse.text)
  /\ returned = <<DataUri(MimePng, DataA)>>

\* C3: no blockReason, no inline data, finishReason present and not "STOP": the outcome
\* is StoppedEarly with exactly that finishReason, with or without text.
C3_StoppedEarly ==
  (/\ Classified
   /\ ~BlockReasonPresent(TheResponse)
   /\ ~HasInlineData(TheResponse)
   /\ IsSome(FinishReasonGiven(TheResponse))
   /\ FinishReasonGiven(TheResponse) # Some("STOP")) =>
    /\ IsThrown("StoppedEarly")
    /\ thrown[1].reason = Get(FinishReasonGiven(TheResponse))

\* finishReason SAFETY with text present has been classified StoppedEarly
C3_Witness ==
  /\ Classified
  /\ ~BlockReasonPresent(TheResponse)
  /\ ~HasInlineData(TheResponse)
  /\ FinishReasonGiven(TheResponse) = Some("SAFETY")
  /\ TruthyText(TheResponse.text)
  /\ IsThrown("StoppedEarly")
  /\ thrown[1].reason = "SAFETY"

\* C4: no blockReason, no inline data, finishReason "STOP" or absent, text empty or
\* absent: the outcome is NoImageReturned without any model text.
C4_NoImageNoText ==
  (/\ Classified
   /\ ~BlockReasonPresent(TheResponse)
   /\ ~HasInlineData(TheResponse)
   /\ FinishedNormally(TheResponse)
   /\ TextEmptyOrAbsent(TheResponse)) =>
    /\ IsThrown("NoImageReturned")
    /\ thrown[1].text = None

\* finishReason STOP and the empty text
C4_Witness ==
  /\ Classified
  /\ ~BlockReasonPresent(TheResponse)
  /\ ~HasInlineData(TheResponse)
  /\ FinishReasonGiven(TheResponse) = Some("STOP")
  /\ TheResponse.text = Some(<<>>)
  /\ IsThrown("NoImageReturned")

\* C5 as stated: no blockReason, no inline data, finishReason absent or "STOP": a
\* non-empty text is carried as it is, and the text-less variant is produced only when
\* the text is empty or absent.
C5_AsStated ==
  (/\ Classified
   /\ ~BlockReasonPresent(TheResponse)
   /\ ~HasInlineData(TheResponse)
   /\ FinishedNormally(TheResponse)) =>
    /\ IsThrown("NoImageReturned")
    /\ TruthyText(TheResponse.text) => thrown[1].text = TheResponse.text
    /\ thrown[1].text = None => TextEmptyOrAbsent(TheResponse)

\* the text without its leading and trailing spaces
Stripped(t) ==
  LET inked == {i \in 1..Len(t) : t[i] # " "}
  IN IF inked = {} THEN <<>>
     ELSE SubSeq(t, CHOOSE i \in inked : \A j \in inked : i <= j,
                    CHOOSE i \in inked : \A j \in inked : i >= j)

\* C5, amended: the text is carried with leading and trailing whitespace removed, and the
\* text-less variant is produced exactly when nothing is left of it (or it is absent).
C5_TrimmedText ==
  (/\ Classified
   /\ ~BlockReasonPresent(TheResponse)
   /\ ~HasInlineData(TheResponse)
   /\ FinishedNormally(TheResponse)) =>
    /\ IsThrown("NoImageReturned")
    /\ LET kept == IF IsSome(TheResponse.text) THEN Stripped(Get(TheResponse.text)) ELSE <<>>
       IN thrown[1].text = (IF kept = <<>> THEN None ELSE Some(kept))

\* a text with a leading space has been carried without it
C5_Witness ==
  /\ Classified
  /\ ~BlockReasonPresent(TheResponse)
  /\ ~HasInlineData(TheResponse)
  /\ FinishedNormally(TheResponse)
  /\ TheResponse.text = Some(<<" ", "x">>)
  /\ IsThrown("NoImageReturned")
  /\ thrown[1].text = Some(<<"x">>)

\* the outcome of handleApiResponse, while it runs and at its end
OneOutcome ==
  op = "handleApiResponse" =>
    /\ sent = <<>>
    /\ pc # "done" => returned = <<>> /\ thrown = <<>>
    /\ pc = "done" =>
         \/ IsSuccess
         \/ \E kind \in {"Blocked", "StoppedEarly", "NoImageReturned"} : IsThrown(kind)

\* C6: on every response, missing or empty candidates, content and parts included,
\* handleApiResponse comes to its end with exactly one outcome: one returned data URI,
\* or one thrown Blocked, StoppedEarly or NoImageReturned; nothing is yielded before.
C6_TotalSingleValued == []OneOutcome /\ ((pc = "block") ~> (pc = "done"))

\* the empty candidates list has been classified
C6_Witness ==
  /\ Classified
  /\ TheResponse.candidates = Some(<<>>)
  /\ TheResponse.promptFeedback = None
  /\ IsThrown("NoImageReturned")

\* a text operation has settled on a provider response
TextOps == {"optimizePrompt", "analyzeImage", "POST /api/optimize-prompt"}

\* C7: in optimizePrompt, analyzeImage and POST /api/optimize-prompt a response whose
\* promptFeedback.blockReason is present is classified Blocked, never SuccessText.
C7_TextOpsBlockedFirst ==
  (op \in TextOps /\ pc = "done" /\ IsSome(response) /\ BlockReasonPresent(TheResponse)) =>
    /\ returned = <<>>
    /\ \A i \in 1..Len(sent) : ~sent[i].success
    /\ \/ Len(thrown) = 1 /\ thrown[1].kind = "Blocked"
       \/ /\ Len(sent) = 1
          /\ IsSome(sent[1].details)
          /\ Get(sent[1].details).kind = "Blocked"

\* a text operation returned the text of a blocked response
C7_Reached ==
  /\ op = "optimizePrompt"
  /\ pc = "done"
  /\ IsSome(response)
  /\ BlockReasonPresent(TheResponse)
  /\ Len(returned) = 1

\* C8: after any sequence of push, undo, redo and reset calls, failing ones included,
\* a history that holds an entry has 0 <= cursor < length.
C8_CursorInRange == Len(entries) > 0 => (0 <= cursor /\ cursor < Len(entries))

\* a call has just failed on a history of three entries with the cursor in the middle
C8_Witness == Len(entries) = 3 /\ cursor = 1 /\ ~result.ok

\* C9: N pushes, K < N undos and one more push leave N-K+1 entries: the first N-K
\* pushed assets in order, then the new asset, the cursor on it; a redo then fails.
C9_PushDiscardsFuture ==
  /\ script.phase = "pushing" =>
       /\ Len(entries) = script.n
       /\ \A i \in 1..script.n : entries[i].asset = script.pushed[i]
       /\ cursor = script.n - 1
  /\ script.phase \in {"pushed", "redone"} =>
       /\ script.k < script.n
       /\ Len(entries) = script.n - script.k + 1
       /\ \A i \in 1..(script.n - script.k) : entries[i].asset = script.pushed[i]
       /\ entries[Len(entries)].asset = Get(script.last)
       /\ cursor = script.n - script.k
  /\ script.phase = "redone" =>
       /\ result.op = "redo"
       /\ ~result.ok
       /\ result.error = "AtNewestVersion"

\* three pushes, one undo, a push and a redo have been made
C9_Witness ==
  /\ script.phase = "redone"
  /\ script.n = 3
  /\ script.k = 1
  /\ Len(entries) = 3

\* C10: where undo succeeds (at least 2 entries, cursor > 0), undo and then redo
\* bring back the cursor and the current asset and leave the entries as they were.
C10_UndoRedoInverse ==
  /\ (result.op = "undo" /\ ~result.ok) => cursor <= 0
  /\ undoRedo.phase # "redoFailed"
  /\ undoRedo.phase = "redone" =>
       /\ entries = undoRedo.entries
       /\ cursor = undoRedo.cursor
       /\ result.ok
       /\ result.value = Some(undoRedo.entries[undoRedo.cursor + 1].asset)

\* an undo from the middle of three entries has been redone
C10_Witness ==
  /\ undoRedo.phase = "redone"
  /\ Len(entries) = 3
  /\ cursor = 1
  /\ entries[1].asset # entries[2].asset

\* C11: undo() with the cursor at 0 fails with AtOldestVersion, redo() with the cursor at
\* the tip fails with AtNewestVersion, and both leave the entries and the cursor as they were.
C11_BoundaryMovesFail ==
  [][/\ (result'.op = "undo" /\ cursor = 0) =>
          /\ ~result'.ok
          /\ result'.error = "AtOldestVersion"
          /\ entries' = entries
          /\ cursor' = cursor
     /\ (result'.op = "redo" /\ Len(entries) > 0 /\ cursor = Len(entries) - 1) =>
          /\ ~result'.ok
          /\ result'.error = "AtNewestVersion"
          /\ entries' = entries
          /\ cursor' = cursor]_vars

\* a redo has failed at the tip of three entries
C11_Witness ==
  /\ result.op = "redo"
  /\ ~result.ok
  /\ result.error = "AtNewestVersion"
  /\ Len(entries) = 3
  /\ cursor = 2

\* ------------------------------------------------------------------ request parts
IsImagePart(part) == IsSome(part.inlineData) /\ ~IsSome(part.text)
IsInstructionPart(part) == IsSome(part.text) /\ ~IsSome(part.inlineData)
RequestBuilt == IsSome(built.parts)
RequestParts == Get(built.parts)
ImageParts == SubSeq(RequestParts, 1, Len(RequestParts) - 1)

\* C19: every built request has exactly one instruction-text part, the last one, with only
\* image parts before it; reference-based generation has the parts of referenceImages in
\* array order; text-to-image and optimize-prompt requests have no image part.
C19_PartsOrdering ==
  RequestBuilt =>
    /\ Len(RequestParts) >= 1
    /\ IsInstructionPart(RequestParts[Len(RequestParts)])
    /\ \A k \in 1..Len(ImageParts) : IsImagePart(ImageParts[k])
    /\ Len(ImageParts) = Len(built.images)
    /\ \A k \in 1..Len(ImageParts) :
         ImageParts[k] = ImagePart(built.images[k].type, Btoa(built.images[k].data))
    /\ built.op \in {"text-to-image", "route-text-to-image", "optimize"} => Len(ImageParts) = 0

\* two different reference images whose conversions settled in the opposite order
C19_Witness ==
  /\ built.op = "reference"
  /\ RequestBuilt
  /\ built.images = <<FileB, FileA>>
  /\ built.order[1] = 2
  /\ Len(RequestParts) = 3

OptionRecognized(o, enumeration) == IsSome(o) => Get(o) \in enumeration
OptionsRecognized ==
  /\ OptionRecognized(built.options.style, DOMAIN styleInstructions)
  /\ OptionRecognized(built.options.aspectRatio, DOMAIN aspectInstructions)
  /\ OptionRecognized(built.options.quality, DOMAIN qualityInstructions)

\* C20: a text-to-image request with a style, aspectRatio or quality outside its enumeration
\* fails with InvalidOption and hands nothing to the provider.
C20_InvalidOptionFailsFast ==
  (built.op \in {"text-to-image", "route-text-to-image"} /\ ~OptionsRecognized) =>
    /\ ~RequestBuilt
    /\ built.error = Some("InvalidOption")

\* ------------------------------------------------------------------ the panels' operations
Sending == {req \in inflight : req.kind \in ImageKinds}
Completed(kinds, status) ==
  last.event = "complete" /\ last.kind \in kinds /\ last.status = status
CompletedNow(kinds, statuses) ==
  last'.event = "complete" /\ last'.kind \in kinds /\ last'.status \in statuses
ImageStateUnchanged ==
  /\ generatedImages' = generatedImages
  /\ entries' = entries
  /\ cursor' = cursor
  /\ panel'.generatedImageUrl = panel.generatedImageUrl

\* C13: while one image-producing operation is Sending, a second one is rejected and issues
\* no request, so at most one image-producing operation is Sending at any time.
C13_SingleFlight == Cardinality(Sending) <= 1

\* C14: an outcome whose issue-time cursor is no longer the current cursor when it arrives
\* is discarded: nothing is pushed or delivered.
C14_StaleDiscarded ==
  [][(CompletedNow(ImageKinds, {"Succeeded", "Failed"}) /\ last'.tag # cursor) =>
       /\ entries' = entries
       /\ cursor' = cursor
       /\ generatedImages' = generatedImages]_vars

\* C15: an image-producing operation that ends Failed delivers and pushes nothing and leaves
\* the history, the cursor and the shown result image as they were.
C15_FailedAppliesNothing ==
  [][CompletedNow(ImageKinds, {"Failed"}) => ImageStateUnchanged]_vars

\* C16: an image-producing operation that ends Succeeded delivers its image exactly once:
\* the generated-images list grows by that one file, and one new version holding it is pushed
\* after the current one and becomes the tip.
C16_SucceededDeliversOnce ==
  [][CompletedNow(ImageKinds, {"Succeeded"}) =>
       /\ Len(generatedImages') = Len(generatedImages) + 1
       /\ SubSeq(generatedImages', 1, Len(generatedImages)) = generatedImages
       /\ Len(entries') = cursor + 2
       /\ SubSeq(entries', 1, cursor + 1) = SubSeq(entries, 1, cursor + 1)
       /\ cursor' = Len(entries') - 1
       /\ entries'[Len(entries')].asset = generatedImages'[Len(generatedImages')]]_vars

\* a second generation has succeeded, through the reference panel
C16_Witness ==
  /\ Completed({"generateWithReference"}, "Succeeded")
  /\ Len(generatedImages) = 2
  /\ cursor = 2

\* C17: optimize-prompt and analyze, issued or settled, succeeding or failing, leave the
\* history, the generated-images list and the shown result image as they were.
C17_TextOpsLeaveImages ==
  [][(last'.kind \in {"optimizePrompt", "analyzeImage"}
        /\ last'.event \in {"issue", "complete"}) => ImageStateUnchanged]_vars

\* a prompt was optimized while a generated image is shown
C17_Witness ==
  /\ Completed({"optimizePrompt"}, "Succeeded")
  /\ last.live
  /\ IsSome(panel.optimizedPrompt)
  /\ IsSome(panel.generatedImageUrl)
  /\ Len(generatedImages) = 1

\* C18: after a failed operation the error state of the calling panel is set and carries
\* the message of the failure as it was raised, on the direct and on the proxy path.
C18_VerbatimFailure ==
  (last.event = "complete" /\ last.status = "Failed" /\ last.live) =>
    /\ IsSome(panel.error)
    /\ Get(panel.error).error = last.cause

\* ------------------------------------------------------------------ display handles
CurrentSeq == IF Len(entries) > 0 THEN Some(entries[cursor + 1].seq) ELSE None

C21_RoundTrip ==
  /\ trip.stage = "encoded" => IsSome(trip.uri)
  /\ trip.stage = "decoded" =>
       /\ IsSome(trip.decoded)
       /\ Get(trip.decoded).type = Get(trip.asset).type
       /\ Get(trip.decoded).data = Get(trip.asset).data

\* a JPEG whose last chunk is padded has made the round trip
C21_Witness ==
  /\ trip.stage = "decoded"
  /\ IsSome(trip.decoded)
  /\ Get(trip.asset).type = MimeJpeg
  /\ Get(trip.asset).data = <<"DEF", "A">>

\* ------------------------------------------------------------------ proxy routes
\* the response of an answered exchange
Answered == exchange.stage = "answered"
RouteResponse == exchange.responses[1]

\* C22: every request to an image route gets exactly one response: 400, with no
\* provider request issued, when a required input is missing (the image file,
\* the prompt, for /api/edit-image either of x and y; a coordinate of 0 is
\* present); otherwise {success: true, imageUrl} exactly when the classifier
\* yields an image; otherwise 500 with {error, details}.
C22_OneResponse ==
  Answered =>
    LET request == Get(exchange.request)
        classified == /\ IsSome(exchange.settled)
                      /\ IsSome(Get(exchange.settled))
                      /\ serverHandleApiResponse(Get(Get(exchange.settled)),
                                                 RouteContext(request.route)).ok
    IN /\ Len(exchange.responses) = 1
       /\ IF MissingInput(request)
          THEN RouteResponse.status = 400 /\ exchange.providerRequests = 0
          ELSE IF classified
          THEN /\ RouteResponse.json /\ RouteResponse.success
               /\ IsSome(RouteResponse.imageUrl)
          ELSE /\ RouteResponse.status = 500
               /\ RouteResponse.json /\ ~RouteResponse.success
               /\ IsSome(RouteResponse.error) /\ IsSome(RouteResponse.details)

\* ------------------------------------------------------------------ the operation state machine
BusyFlags == {"isGenerating", "isOptimizing", "isAnalyzing"}
BusyOf(kind) ==
  CASE kind \in ImageKinds -> "isGenerating"
    [] kind = "optimizePrompt" -> "isOptimizing"
    [] kind = "analyzeImage" -> "isAnalyzing"
AnyBusy == \E busy \in BusyFlags : panel[busy]

\* a step that starts an operation takes its panel from Idle to Sending, with a prompt
\* that is not blank (an image that is selected)
StartsSending ==
  last'.event = "issue" =>
    /\ last'.status = "Sending"
    /\ ~panel[BusyOf(last'.kind)] /\ panel'[BusyOf(last'.kind)]
    /\ Cardinality(inflight') = Cardinality(inflight) + 1
    /\ IF last'.kind = "analyzeImage" THEN IsSome(last'.image) /\ last'.image = panel.selectedImage
       ELSE ~Blank(last'.prompt)
    /\ last'.kind = "generateWithReference" => Len(panel.referenceImages) > 0
\* a click that is turned down starts nothing
TurnedDown ==
  last'.event = "rejected" =>
    /\ inflight' = inflight
    /\ \A busy \in BusyFlags : panel'[busy] = panel[busy]
\* a step that ends an operation ends it in one of Succeeded and Failed and clears the
\* flag of its panel
EndsSending ==
  last'.event = "complete" =>
    /\ last'.status \in {"Succeeded", "Failed"}
    /\ Cardinality(inflight') = Cardinality(inflight) - 1
    /\ last'.live => ~panel'[BusyOf(last'.kind)]
    /\ (last'.live /\ last'.status = "Failed") => IsSome(panel'.error)

\* C23: every started operation moves Idle -> Sending and, the transport resolving or
\* rejecting, ends in exactly one of Succeeded and Failed; on both paths the Sending flag
\* is cleared, so no panel stays in Sending forever; a click with a blank prompt (or
\* without an image) never enters Sending.
C23_OperationSettles ==
  /\ [][StartsSending /\ TurnedDown /\ EndsSending]_vars
  /\ (inflight # {} \/ AnyBusy) ~> (inflight = {} /\ ~AnyBusy)
C23_Witness ==
  /\ last.event = "complete" /\ last.live /\ last.status = "Failed"
  /\ last.kind = "analyzeImage"
  /\ ~panel.isAnalyzing /\ IsSome(panel.error)
  /\ issued = 2

\* ------------------------------------------------------------------ reset
\* the step is a reset
ResetStep == result'.op = "reset" /\ nextSeq' = nextSeq + 1
\* what reset leaves: one entry, a fresh one holding the given asset, the cursor on it,
\* no undo and no redo, none of the entries held before
LeavesOneEntry ==
  /\ Len(entries') = 1
  /\ cursor' = 0
  /\ entries'[1].seq = nextSeq
  /\ \A asset \in Assets : Upload(asset) => entries'[1].asset = asset
  /\ ~CanUndo' /\ ~CanRedo'
  /\ SeqsOf(entries) \cap SeqsOf(entries') = {}

Toggles == {k \in 1..Len(trail) : trail[k].event = "toggleTheme"}
\* the order the documentation gives: dark -> light -> auto -> dark
NextInOrder(th) ==
  CASE th = "dark" -> "light"
    [] th = "light" -> "auto"
    [] th = "auto" -> "dark"

\* C25: toggleTheme cycles the theme in the order dark -> light -> auto -> dark: from each
\* of the three one toggle yields the next, three toggles in a row return to the theme
\* they started from, and after every toggle the item stored under 'theme' is the theme.
C25_ToggleCycle ==
  /\ \A k \in Toggles :
       /\ trail[k].before \in {"dark", "light", "auto"} =>
            trail[k].after = NextInOrder(trail[k].before)
       /\ trail[k].stored = Some(trail[k].after)
  /\ \A k \in Toggles :
       (k + 2 \in Toggles /\ k + 1 \in Toggles /\ trail[k].before \in {"dark", "light", "auto"}) =>
         trail[k + 2].after = trail[k].before
  /\ (Len(trail) > 0 /\ Len(trail) \in Toggles) => localStorage = Some(theme)
\* three toggles in a row from auto, the first with nothing stored
C25_Witness ==
  /\ Len(trail) >= 3
  /\ {1, 2, 3} \subseteq Toggles
  /\ trail[1].before = "auto"
  /\ theme = "auto"
  /\ localStorage = Some("auto")

\* ------------------------------------------------------------------ the three classifiers
\* C26: the classifier of the edit service, of the draw service and of the proxy server
\* are equivalent: for every provider response and the same context all three return the
\* same data URI or throw an error with the same message.
C26_CopiesAgree ==
  (op = "handleApiResponse" /\ IsSome(response)) =>
    LET edit == handleApiResponse(Get(response), context)
        draw == drawHandleApiResponse(Get(response), context)
        server == serverHandleApiResponse(Get(response), context)
    IN /\ edit = draw
       /\ draw = server
       /\ pc = "done" =>
            IF edit.ok THEN returned = <<Get(edit.value)>> /\ thrown = <<>>
            ELSE thrown = <<Get(edit.error)>> /\ returned = <<>>
\* a response with an image part in a candidate that stopped early: all three return it
C26_Witness ==
  /\ op = "handleApiResponse" /\ pc = "done"
  /\ Len(returned) = 1
  /\ StoppedEarly(Get(response))
  /\ serverHandleApiResponse(Get(response), context).ok

\* ------------------------------------------------------------------ reference images
\* C27: ReferencePanel never holds more than 3 reference images, whatever files are
\* selected or dropped, two selections handled before the re-render included, and
\* whatever images are removed.
C27_AtMostThree == Len(referenceImages) <= 3

\* ------------------------------------------------------------------ analysis and optimization
\* the step applies the result of an operation of the kind to the mounted panel
AppliedNow(kind) ==
  /\ last'.event = "complete"
  /\ last'.kind = kind
  /\ last'.live
  /\ last'.status = "Succeeded"

\* C28: AnalysisPanel never shows the analysis of another image: an analysis result that
\* is set is the result of analysing the selected image, also when a new image is
\* selected, by picker or by drop, while the analysis of the previous one is in flight.
C28_AnalysisOfSelected ==
  [][/\ AppliedNow("analyzeImage") =>
          /\ IsSome(panel'.analysisResult)
          /\ last'.image = panel'.selectedImage
     /\ (activeMode' = "analysis" /\ panel'.selectedImage # panel.selectedImage) =>
          panel'.analysisResult = None]_vars

\* C29: in TextToImagePanel the optimized prompt belongs to the prompt: every prompt edit
\* and every preset click resets optimizedPrompt to null, and an optimizedPrompt that is
\* set was produced by optimizing the present value of prompt, so that handleGenerate
\* never sends the optimization of an earlier prompt that was replaced.
C29_OptimizedOfCurrent ==
  [][/\ last'.event \in {"handlePromptChange", "handlePresetClick"} =>
          panel'.optimizedPrompt = None
     /\ AppliedNow("optimizePrompt") =>
          /\ IsSome(panel'.optimizedPrompt)
          /\ last'.prompt = panel'.prompt
     /\ (activeMode' = "textToImage" /\ panel'.prompt # panel.prompt) =>
          panel'.optimizedPrompt = None]_vars

\* ------------------------------------------------------------------ the two text-to-image paths
\* the instruction the direct path builds for the prompt and the options of the request
\* that was built on the proxy path
DirectInstruction ==
  generateImageFromTextParts(Get(RequestParts[1].text).prompt, built.options).value

\* C30: the direct path and the proxy path build the same text-to-image instruction: for
\* every prompt and every options record whose style, aspectRatio and quality are omitted
\* or values of their enumerations, both resolve the same defaults and the same labels.
C30_SameInstruction ==
  (built.op = "client-text-to-image" /\ OptionsRecognized) =>
    /\ RequestBuilt
    /\ built.parts = DirectInstruction

====
